---------------------------- MODULE Spec2Model ----------------------------
(***************************************************************************)
(* ChatSync cluster synchronisation: one main server (hub) and NLeaves     *)
(* sub servers (leaves), each leaf holding one socket to the hub.          *)
(*                                                                         *)
(* Modelled from src/chat_sync/network.py (NetworkManager) and             *)
(* src/chat_sync/__init__.py (handle_network_message, on_info,             *)
(* on_player_joined, forward_to_game, forward_to_qq_group).                *)
(*                                                                         *)
(* Node ids: 0 is the main server, 1..NLeaves are the sub servers.  A      *)
(* leaf's id doubles as the client_id ("ip:port") under which the hub      *)
(* registers that leaf's socket, and as its mc_server_name.  The id 0 is   *)
(* also the sender id "main_server" a leaf passes to its handlers.         *)
(*                                                                         *)
(* A text is a sequence of tokens; chat line / event number k is the       *)
(* one-token text <<k>>, so (server_name, message) identifies one produced *)
(* message wherever an envelope carrying it travels.                       *)
(***************************************************************************)
EXTENDS Integers, Sequences, FiniteSets, TLC

\* ------------------------------------------------------------- bounds
NLeaves == 2
MaxMsgs == 1
MaxQueries == 2
MaxFrames == 2

\* ---------------------------------------------------------- constants
MAIN_SERVER == 0
None == -1
Player == 1

Leaves == 1..NLeaves
Nodes == {MAIN_SERVER} \cup Leaves
MsgIds == 1..MaxMsgs
Queries == 1..MaxQueries
Passwords == {"secret", "wrong"}

VARIABLES
    config,              \* per node: main_server, main_server_password, sync_mc_to_mc, sync_mc_to_qq
    client_connections,  \* hub: the registered client ids
    is_connected,        \* per leaf: NetworkManager.is_connected
    link,                \* per leaf socket: "closed" or "registered" (open and authenticated)
    toHub,               \* per leaf socket: frames written by the leaf, not yet read by the hub
    toLeaf,              \* per leaf socket: frames written by the hub, not yet read by the leaf
    first,               \* per leaf socket, while it is open: the first frame the hub read on it
    produced,            \* the nodes that produced a local chat line / event so far; message k is from produced[k]
    shown,               \* per node and message: number of plugin_server.say calls (forward_to_game)
    qq,                  \* per node and message: number of forward_to_qq_group calls
    last,                \* what the most recent produce / receive / authenticate step did
    loop,                \* per leaf: where its _client_loop thread stands, and its timers
    listening,           \* hub: socket_server is bound and _server_loop accepts
    message_handlers,    \* hub: NetworkManager.message_handlers, as handler ids in list order
    agg,                 \* per call of get_all_player_lists: its position and local variables
    clk,                 \* what int(time.time() * 1000) returns, relative to the last reading taken
    sock,                \* one direction of one TCP connection: the bytes in flight, and whether the writing end is closed
    send,                \* per writing context: where its _send_message call stands
    recv,                \* the reading context: where its _receive_message call stands
    written,             \* the records passed to _send_message on that connection, in call order
    returned,            \* what the calls of _receive_message on that connection returned, in order
    ctx,                 \* hub, per client socket: where the _handle_client thread of that socket stands
    socks,               \* hub, per client socket: "none" (not accepted), "open" or "closed"
    should_stop,         \* hub: NetworkManager.should_stop
    server_loop,         \* hub: "accept" (the _server_loop thread is in accept) or "exited"
    it,                  \* hub, primary context: its loop over client_connections.items(), in _stop_server or _broadcast_to_clients
    events,              \* hub: what the _handle_client threads did, in order
    client_socket,       \* per leaf: the socket objects it created that are still open, and the one it uses
    disp,                \* hub, per client socket: the `for handler in self.message_handlers` loop of its thread
    is_running,          \* per node: NetworkManager.is_running
    client_should_stop   \* per leaf: NetworkManager.should_stop of the leaf's manager

\* the state of the threads that only the timed and the roster specifications move
\* the byte level of one connection and the threads of the hub, which only
\* the framing and the thread specifications move
\* the state that only the specifications of single loops and of the manager's
\* life cycle move
life == <<disp, is_running, client_should_stop>>

ext == <<sock, send, recv, written, returned,
         ctx, socks, should_stop, server_loop, it, events, client_socket, life>>

aux == <<loop, listening, message_handlers, agg, clk, ext>>

vars == <<config, client_connections, is_connected, link, toHub, toLeaf, first,
          produced, shown, qq, last, aux>>

\* ------------------------------------------------------ data: envelopes
ChatSyncObj(type, server_name, player, message) ==
    [type |-> type, server_name |-> server_name, player |-> player, message |-> message]

\* ChatSyncObj.from_dict: player is read with .get, the other keys are required
FromDict(data) ==
    ChatSyncObj(data.type, data.server_name, data.player, data.message)

NoObj == ChatSyncObj(None, None, None, <<>>)

\* ------------------------------------------------------- data: frames
AuthFrame(password) == [type |-> "auth", password |-> password]
AuthResponse(success) == [type |-> "auth_response", success |-> success]
ChatSyncFrame(obj) == [type |-> "chat_sync_obj", data |-> obj]
PingFrame == [type |-> "ping"]
PongFrame == [type |-> "pong"]
\* _receive_message returned None: the peer closed, or the bytes did not decode
ClosedFrame == [type |-> "closed"]
NoFrame == [type |-> "none"]

\* the first frames a peer may present on a fresh socket
FirstFrames ==
    {AuthFrame(p) : p \in Passwords}
        \cup {PingFrame, ChatSyncFrame(ChatSyncObj(0, 1, Player, <<1>>)), ClosedFrame}

NoSends == [d \in Nodes |-> <<>>]

\* two batches of writes, one after the other, per destination socket
Then(a, b) == [d \in Nodes |-> a[d] \o b[d]]

IsMainServer(n) == config[n].main_server

\* ------------------------------------------------------------ network.py
\* mutant of BroadcastToClients: exclude_client is ignored
BroadcastToClients_NoExclude(n, data, exclude_client) ==
    IF ~IsMainServer(n) THEN NoSends
    ELSE [d \in Nodes |-> IF d \in client_connections THEN <<data>> ELSE <<>>]

\* the frames _broadcast_to_clients writes, per destination
BroadcastToClients(n, data, exclude_client) ==
    IF ~IsMainServer(n) THEN NoSends
    ELSE [d \in Nodes |->
            IF d \in client_connections /\ ~(exclude_client # None /\ d = exclude_client)
            THEN <<data>> ELSE <<>>]

\* mutant of SendChatSyncMessage: the leaf branch tests is_connected inverted,
\* so a connected leaf never writes
SendChatSyncMessage_LeafTestInverted(n, chat_sync_obj, exclude_client) ==
    IF IsMainServer(n)
    THEN BroadcastToClients(n, ChatSyncFrame(chat_sync_obj), exclude_client)
    ELSE IF ~is_connected[n]
         THEN [d \in Nodes |-> IF d = MAIN_SERVER THEN <<ChatSyncFrame(chat_sync_obj)>> ELSE <<>>]
         ELSE NoSends

\* the frames send_chat_sync_message writes, per destination
SendChatSyncMessage(n, chat_sync_obj, exclude_client) ==
    IF IsMainServer(n)
    THEN BroadcastToClients(n, ChatSyncFrame(chat_sync_obj), exclude_client)
    ELSE IF is_connected[n]
         THEN [d \in Nodes |-> IF d = MAIN_SERVER THEN <<ChatSyncFrame(chat_sync_obj)>> ELSE <<>>]
         ELSE NoSends

\* ----------------------------------------------------------- __init__.py
Effect(say, qqn, err, sentTo) == [say |-> say, qq |-> qqn, err |-> err, sentTo |-> sentTo]
NoEffect == Effect(0, 0, 0, NoSends)

\* text of the roster a node reports (get_player_list); one token per node
RosterText(n) == <<100 + n>>
Delim == 0

\* mutant of HandleNetworkMessage: the gateway forward of a LeafChat/LeafEvent
\* sits inside the sync_mc_to_mc block
HandleNetworkMessage_QQInsideRelay(n, message_data, sender_id) ==
    LET obj == FromDict(message_data.data)
        cfg == config[n]
    IN  CASE obj.type \in {0, 1} ->
               Effect(IF cfg.sync_mc_to_mc THEN 1 ELSE 0,
                      IF cfg.sync_mc_to_mc /\ cfg.sync_mc_to_qq THEN 1 ELSE 0,
                      IF ~cfg.main_server THEN 1 ELSE 0,
                      IF cfg.sync_mc_to_mc
                      THEN SendChatSyncMessage(n,
                               ChatSyncObj(obj.type + 2, obj.server_name, obj.player, obj.message),
                               sender_id)
                      ELSE NoSends)
          [] obj.type \in {2, 3, 4} ->
               Effect(1, 0, 0, NoSends)
          [] OTHER -> Effect(0, 0, 0, NoSends)

\* mutant of HandleNetworkMessage: a leaf answers a PeerChat/PeerEvent/
\* GatewayChat by sending the envelope on to the hub
HandleNetworkMessage_LeafAnswersPeer(n, message_data, sender_id) ==
    LET obj == FromDict(message_data.data)
        cfg == config[n]
    IN  CASE obj.type \in {0, 1} ->
               Effect(IF cfg.sync_mc_to_mc THEN 1 ELSE 0,
                      IF cfg.sync_mc_to_qq THEN 1 ELSE 0,
                      IF ~cfg.main_server THEN 1 ELSE 0,
                      IF cfg.sync_mc_to_mc
                      THEN SendChatSyncMessage(n,
                               ChatSyncObj(obj.type + 2, obj.server_name, obj.player, obj.message),
                               sender_id)
                      ELSE NoSends)
          [] obj.type \in {2, 3, 4} ->
               Effect(1, 0, 0,
                      IF cfg.main_server THEN NoSends
                      ELSE SendChatSyncMessage(n, obj, None))
          [] OTHER -> Effect(0, 0, 0, NoSends)

\* handle_network_message: what node n does with one chat_sync_obj frame
HandleNetworkMessage(n, message_data, sender_id) ==
    LET obj == FromDict(message_data.data)
        cfg == config[n]
    IN  CASE obj.type \in {0, 1} ->
               Effect(IF cfg.sync_mc_to_mc THEN 1 ELSE 0,
                      IF cfg.sync_mc_to_qq THEN 1 ELSE 0,
                      IF ~cfg.main_server THEN 1 ELSE 0,
                      IF cfg.sync_mc_to_mc
                      THEN SendChatSyncMessage(n,
                               ChatSyncObj(obj.type + 2, obj.server_name, obj.player, obj.message),
                               sender_id)
                      ELSE NoSends)
          [] obj.type \in {2, 3} ->
               Effect(1, 0, IF cfg.main_server THEN 1 ELSE 0, NoSends)
          [] obj.type = 4 ->
               Effect(1, 0, 0, NoSends)
          [] obj.type = 5 ->
               IF cfg.main_server
               THEN Effect(0, 0, 1, NoSends)
               ELSE Effect(0, 0, 0,
                           SendChatSyncMessage(n,
                               ChatSyncObj(6, n, None, obj.message \o <<Delim>> \o RosterText(n)),
                               None))
          [] obj.type = 6 ->
               Effect(0, 0, IF ~cfg.main_server THEN 1 ELSE 0, NoSends)
          [] OTHER -> Effect(0, 0, 1, NoSends)

\* _handle_chat_sync_message: the registered handlers, then the hub's own
\* forwarding of the received frame to the other clients
HandleChatSyncMessage(n, data, sender_id) ==
    LET h == HandleNetworkMessage(n, data, sender_id)
        fwd == IF IsMainServer(n) /\ sender_id # MAIN_SERVER
               THEN BroadcastToClients(n, data, sender_id)
               ELSE NoSends
    IN  Effect(h.say, h.qq, h.err, Then(h.sentTo, fwd))

\* mutant of HandlePingMessage: the hub answers a ping with a pong to every
\* client
HandlePingMessage_PongToAll(n, data, sender_id) ==
    Effect(0, 0, 0,
           IF IsMainServer(n)
           THEN [d \in Nodes |-> IF d \in client_connections THEN <<PongFrame>> ELSE <<>>]
           ELSE [d \in Nodes |-> IF d = MAIN_SERVER THEN <<PongFrame>> ELSE <<>>])

\* _handle_ping_message: reply pong to the peer the ping came from
HandlePingMessage(n, data, sender_id) ==
    Effect(0, 0, 0,
           IF IsMainServer(n)
           THEN [d \in Nodes |-> IF d = sender_id /\ d \in client_connections
                                 THEN <<PongFrame>> ELSE <<>>]
           ELSE [d \in Nodes |-> IF d = MAIN_SERVER THEN <<PongFrame>> ELSE <<>>])

\* _handle_received_message: dispatch on the frame's type
HandleReceivedMessage(n, data, sender_id) ==
    CASE data.type = "chat_sync_obj" -> HandleChatSyncMessage(n, data, sender_id)
      [] data.type = "ping" -> HandlePingMessage(n, data, sender_id)
      [] OTHER -> NoEffect


\* -------------------------------------------------------------- state
\* ------------------------------------------------- utils.py: the roster query
\* timeout = 10.0 and asyncio.sleep(0.1) in get_all_player_lists, in units of
\* the polling interval
TIMEOUT == 100
POLL == 1
\* the "---超时服务器---" part of the result
TimeoutNote == 99
\* handler id of handle_network_message, registered by on_load
HANDLE_NETWORK_MESSAGE == 0

\* a call of get_all_player_lists that has not started.
\*   pc        "idle", "broadcast" (handler registered, about to send),
\*             "count" (sent, about to read the registry's size), "poll" (at
\*             the while test, between two sleeps) or "done"
\*   responses the dict, as the sequence of its <<sender_id, content>> items in
\*             insertion order
\*   elapsed   polling intervals since start_time
\*   checked, sent, counted  the registry at the zero-leaves check, at the
\*             broadcast and when expected_responses was read
\*   result    the parts of the returned text, joined by a blank line
NoQuery ==
    [pc |-> "idle", request_id |-> None, responses |-> <<>>, expected |-> None,
     elapsed |-> 0, checked |-> {}, sent |-> {}, counted |-> {}, result |-> <<>>]

\* no query was ever made: only handle_network_message is registered
NoQueries ==
    /\ message_handlers = <<HANDLE_NETWORK_MESSAGE>>
    /\ agg = [q \in Queries |-> NoQuery]
    /\ clk = [issued |-> 0, advanced |-> TRUE]

\* time.sleep(5) in _client_loop
RECONNECT_DELAY == 5

\* _client_loop of a leaf about to run its first iteration.
\*   pc     "top" (the while test), "recv" (inside _receive_message) or
\*          "sleep" (inside time.sleep)
\*   timer  time units of the sleep still to go
\*   since  time units since the loop last saw its connection closed (None:
\*          not since the last attempt), counted up to RECONNECT_DELAY
\*   failed some _connect_to_server returned False
LoopStart ==
    [pc |-> "top", timer |-> 0, since |-> None, failed |-> FALSE]

\* the contexts that may call _send_message on one socket
Writers == 1..2

\* a _send_message call not under way / a _receive_message call about to read
\* the length.
\*   send[w].pc   "idle" or "payload" (the length is written, the payload not)
\*   recv.pc      "length", "payload", or "stopped" (the caller got None and
\*                left its read loop)
\*   recv.data    the bytes _receive_exact has collected so far
\*   recv.length  the number of bytes it was asked for
\*   recv.short   some sock.recv returned fewer bytes than asked for
NoSend == [pc |-> "idle", data |-> NoFrame]
NoRecv == [pc |-> "length", data |-> <<>>, length |-> 4, short |-> FALSE]

\* a fresh connection: nothing written, nothing read
NoBytes ==
    /\ sock = [bytes |-> <<>>, eof |-> FALSE]
    /\ send = [w \in Writers |-> NoSend]
    /\ recv = NoRecv
    /\ written = <<>>
    /\ returned = <<>>

\* no _handle_client thread for a socket / no loop over the registry.
\*   ctx[c].pc   "none", "auth" (in _authenticate_client), "loop" (at the while
\*               test), "recv" (in _receive_message), "handlers" (about to run
\*               the handler loop on data), "forward" (about to forward data),
\*               "exited"
\*   it.pc       "idle", "iter" (between two items), "done" or "raised" (the
\*               iteration raised RuntimeError: dictionary changed size)
\*   it.op       "stop" or "broadcast"
\*   it.data     the frame being broadcast
\*   it.size     len(client_connections) when the iteration started
\*   it.visited  the client ids the loop body ran for
\*   it.stable   the client ids registered from the start of the loop until now
NoCtx == [pc |-> "none", data |-> NoFrame]
NoIter ==
    [pc |-> "idle", op |-> "none", data |-> NoFrame, size |-> 0, visited |-> {}, stable |-> {}]

\* no handler loop under way.
\*   disp[c].pc       "idle", "iter" (between two handlers) or "done"
\*   disp[c].i        the index the list iterator will read next (from 0)
\*   disp[c].invoked  the handlers called so far, in order
\*   disp[c].start    message_handlers when the loop began
NoDispatch ==
    [pc |-> "idle", i |-> 0, invoked |-> <<>>, start |-> <<>>]

\* no handler loop under way, every manager started and none stopped
NoLife ==
    /\ disp = [c \in Leaves |-> NoDispatch]
    /\ is_running = [n \in Nodes |-> TRUE]
    /\ client_should_stop = [l \in Leaves |-> FALSE]

\* the hub as the byte-level and the frame-level specifications see it: its
\* threads are not followed
NoThreads ==
    /\ ctx = [c \in Leaves |-> NoCtx]
    /\ socks = [c \in Leaves |-> "none"]
    /\ should_stop = FALSE
    /\ server_loop = "accept"
    /\ it = NoIter
    /\ events = <<>>
    /\ client_socket = [l \in Leaves |-> [open |-> {}, cur |-> None]]
    /\ NoLife

Configs(main) ==
    [main_server : {main}, main_server_password : {"secret"},
     sync_mc_to_mc : BOOLEAN, sync_mc_to_qq : BOOLEAN]

NoStep ==
    [op |-> "none", node |-> None, sender |-> None, frame |-> NoFrame,
     say |-> 0, qq |-> 0, err |-> 0, sentTo |-> NoSends]

\* op: "local" (frame is the envelope produced) or "recv" (frame is the one read)
Step(op, n, sender_id, frame, e) ==
    [op |-> op, node |-> n, sender |-> sender_id, frame |-> frame,
     say |-> e.say, qq |-> e.qq, err |-> e.err, sentTo |-> e.sentTo]

Init ==
    /\ config \in [Nodes -> Configs(TRUE) \cup Configs(FALSE)]
    /\ \A n \in Nodes : config[n].main_server = (n = MAIN_SERVER)
    /\ client_connections = {}
    /\ is_connected = [l \in Leaves |-> FALSE]
    /\ link = [l \in Leaves |-> "closed"]
    /\ toHub = [l \in Leaves |-> <<>>]
    /\ toLeaf = [l \in Leaves |-> <<>>]
    /\ first = [l \in Leaves |-> NoFrame]
    /\ produced = <<>>
    /\ shown = [n \in Nodes |-> [m \in MsgIds |-> 0]]
    /\ qq = [n \in Nodes |-> [m \in MsgIds |-> 0]]
    /\ last = NoStep
    /\ loop = [l \in Leaves |-> LoopStart]
    /\ listening = TRUE
    /\ NoQueries
    /\ NoBytes
    /\ NoThreads

\* the writes of node n (sentTo) appended to the socket queues qHub, qLeaf
WriteAll(n, sentTo, qHub, qLeaf) ==
    /\ toHub' = [l \in Leaves |-> IF n = l THEN qHub[l] \o sentTo[MAIN_SERVER] ELSE qHub[l]]
    /\ toLeaf' = [l \in Leaves |-> IF n = MAIN_SERVER THEN qLeaf[l] \o sentTo[l] ELSE qLeaf[l]]

\* plugin_server.say and forward_to_qq_group calls of node n for message m
Record(n, m, e) ==
    /\ shown' = [shown EXCEPT ![n][m] = @ + e.say]
    /\ qq' = [qq EXCEPT ![n][m] = @ + e.qq]

\* -------------------------------------------------- local events (__init__.py)
\* mutant of LocalEffect: the hub wraps its own message like a leaf does
LocalEffect_HubWrapsAsLeaf(n, is_event, m) ==
    LET base == IF is_event THEN 1 ELSE 0
        obj == ChatSyncObj(base, n, Player, <<m>>)
    IN  [obj |-> obj,
         e |-> Effect(0, IF config[n].main_server /\ config[n].sync_mc_to_qq THEN 1 ELSE 0, 0,
                      SendChatSyncMessage(n, obj, None))]

\* what a node does with a local chat line (is_event = FALSE, on_info) or a
\* local join/leave/death/advancement (is_event = TRUE, on_player_joined ...)
LocalEffect(n, is_event, m) ==
    LET base == IF is_event THEN 1 ELSE 0
    IN  IF config[n].main_server
        THEN LET obj == ChatSyncObj(2 + base, n, Player, <<m>>)
             IN  [obj |-> obj,
                  e |-> Effect(0, IF config[n].sync_mc_to_qq THEN 1 ELSE 0, 0,
                               SendChatSyncMessage(n, obj, None))]
        ELSE LET obj == ChatSyncObj(base, n, Player, <<m>>)
             IN  [obj |-> obj,
                  e |-> Effect(0, 0, 0, SendChatSyncMessage(n, obj, None))]

Produce(n, is_event) ==
    /\ Len(produced) < MaxMsgs
    /\ LET m == Len(produced) + 1
           r == LocalEffect(n, is_event, m)
       IN  /\ produced' = Append(produced, n)
           /\ WriteAll(n, r.e.sentTo, toHub, toLeaf)
           /\ Record(n, m, r.e)
           /\ last' = Step("local", n, None, ChatSyncFrame(r.obj), r.e)
    /\ UNCHANGED <<aux, config, client_connections, is_connected, link, first>>

\* on_info: a player's chat line that should_filter_message lets through
OnInfo(n) == Produce(n, FALSE)

\* on_player_joined / on_player_left / on_player_death / on_player_advancement
\* with the event's sync toggle on
OnPlayerJoined(n) == Produce(n, TRUE)

\* on_qq_group_message (registered on the main server only, on_load): a group
\* message that is relayed, i.e. not a command, config.sync_qq_to_mc on, the
\* group in config.qq_group_id, not filtered, the user bound.  It is shown on
\* the hub, sent to every leaf as type 4, and passed to forward_to_qq_group
\* when the hub's config.sync_qq_to_qq (read nowhere else) is on.
OnQQGroupMessage(sync_qq_to_qq) ==
    /\ Len(produced) < MaxMsgs
    /\ LET m == Len(produced) + 1
           obj == ChatSyncObj(4, MAIN_SERVER, Player, <<m>>)
           e == Effect(1, IF sync_qq_to_qq THEN 1 ELSE 0, 0,
                       SendChatSyncMessage(MAIN_SERVER, obj, None))
       IN  /\ produced' = Append(produced, MAIN_SERVER)
           /\ WriteAll(MAIN_SERVER, e.sentTo, toHub, toLeaf)
           /\ Record(MAIN_SERVER, m, e)
           /\ last' = Step("qq", MAIN_SERVER, None, ChatSyncFrame(obj), e)
    /\ UNCHANGED <<aux, config, client_connections, is_connected, link, first>>

\* ------------------------------------------------ connections (network.py)
\* mutant of AuthenticateClient: the password is not compared
AuthenticateClient_NoPasswordCheck(auth_data) ==
    IF auth_data = ClosedFrame \/ auth_data.type # "auth"
    THEN FALSE
    ELSE TRUE

\* _authenticate_client: TRUE iff the first frame is an auth record with the
\* configured password
AuthenticateClient(auth_data) ==
    IF auth_data = ClosedFrame \/ auth_data.type # "auth"
    THEN FALSE
    ELSE auth_data.password = config[MAIN_SERVER].main_server_password

\* A peer opens socket l and writes its first frame f (_connect_to_server: a
\* leaf writes AuthFrame(its configured password); any other frame is a
\* foreign peer's), and the hub's thread for that socket runs _handle_client
\* up to its read loop: authenticate, then register, or close.
HandleClient(l, f) ==
    /\ link[l] = "closed"
    /\ IF AuthenticateClient(f)
       THEN /\ link' = [link EXCEPT ![l] = "registered"]
            /\ first' = [first EXCEPT ![l] = f]
            /\ client_connections' = client_connections \cup {l}
            /\ toLeaf' = [toLeaf EXCEPT ![l] = <<AuthResponse(TRUE)>>]
       ELSE \* auth_response success=False (wrong password only), then
            \* client_socket.close(): the peer reads the refusal or None, and
            \* _connect_to_server returns False either way
            /\ UNCHANGED <<link, first, client_connections, toLeaf>>
    /\ last' = [NoStep EXCEPT !.op = "auth", !.node = MAIN_SERVER, !.sender = l, !.frame = f]
    /\ UNCHANGED <<aux, config, is_connected, toHub, produced, shown, qq>>

\* _authenticate_to_server / _connect_to_server: the leaf reads the response
LeafAuthenticated(l) ==
    /\ ~is_connected[l]
    /\ toLeaf[l] # <<>>
    /\ Head(toLeaf[l]).type = "auth_response"
    /\ is_connected' = [is_connected EXCEPT ![l] = Head(toLeaf[l]).success]
    /\ toLeaf' = [toLeaf EXCEPT ![l] = Tail(@)]
    /\ last' = [NoStep EXCEPT !.op = "authenticated", !.node = l]
    /\ UNCHANGED <<aux, config, client_connections, link, toHub, first, produced, shown, qq>>

\* the socket of leaf l goes down: both read loops get None, the hub's
\* finally-block deregisters the client, the leaf clears is_connected
Disconnect(l) ==
    /\ link[l] # "closed"
    /\ link' = [link EXCEPT ![l] = "closed"]
    /\ client_connections' = client_connections \ {l}
    /\ is_connected' = [is_connected EXCEPT ![l] = FALSE]
    /\ toHub' = [toHub EXCEPT ![l] = <<>>]
    /\ toLeaf' = [toLeaf EXCEPT ![l] = <<>>]
    /\ first' = [first EXCEPT ![l] = NoFrame]
    /\ last' = [NoStep EXCEPT !.op = "disconnect", !.node = l]
    /\ UNCHANGED <<aux, config, produced, shown, qq>>

\* ---------------------------------------------------- read loops (network.py)
MsgOf(data) ==
    IF data.type = "chat_sync_obj" /\ data.data.type \in 0..4 THEN data.data.message[1] ELSE None

Receive(n, data, sender_id, qHub, qLeaf) ==
    LET e == HandleReceivedMessage(n, data, sender_id)
        m == MsgOf(data)
    IN  /\ WriteAll(n, e.sentTo, qHub, qLeaf)
        /\ IF m \in MsgIds THEN Record(n, m, e) ELSE UNCHANGED <<shown, qq>>
        /\ last' = Step("recv", n, sender_id, data, e)

\* message.startswith(prefix)
StartsWith(message, prefix) ==
    Len(message) >= Len(prefix) /\ SubSeq(message, 1, Len(prefix)) = prefix

\* responses[sender_id] = content on a dict kept as its items in insertion order
DictSet(items, sender_id, content) ==
    IF \E i \in DOMAIN items : items[i][1] = sender_id
    THEN [i \in DOMAIN items |->
             IF items[i][1] = sender_id THEN <<sender_id, content>> ELSE items[i]]
    ELSE Append(items, <<sender_id, content>>)

\* mutant of HandlePlayerListResponse: every RosterReply is recorded, whatever
\* id it carries
HandlePlayerListResponse_AnyId(a, data, sender_id) ==
    LET obj == FromDict(data.data)
    IN  IF obj.type = 6
        THEN [a EXCEPT !.responses = DictSet(@, sender_id,
                                         SubSeq(obj.message, 3, Len(obj.message)))]
        ELSE a

\* handle_player_list_response, the closure of the call whose variables are a:
\* a type-6 envelope whose message starts with request_id + "|" is recorded
\* under the sender's id, without that prefix
HandlePlayerListResponse(a, data, sender_id) ==
    LET obj == FromDict(data.data)
    IN  IF obj.type = 6 /\ StartsWith(obj.message, <<a.request_id, Delim>>)
        THEN [a EXCEPT !.responses = DictSet(@, sender_id,
                                         SubSeq(obj.message, 3, Len(obj.message)))]
        ELSE a

\* the temporary handlers in message_handlers, run on one chat_sync_obj frame
RunHandlers(data, sender_id) ==
    [q \in Queries |->
        IF data.type = "chat_sync_obj" /\ (\E i \in DOMAIN message_handlers : message_handlers[i] = q)
        THEN HandlePlayerListResponse(agg[q], data, sender_id)
        ELSE agg[q]]

\* _handle_client's read loop: one frame from client l
HubRecv(l) ==
    /\ l \in client_connections
    /\ toHub[l] # <<>>
    /\ Receive(MAIN_SERVER, Head(toHub[l]), l, [toHub EXCEPT ![l] = Tail(@)], toLeaf)
    /\ agg' = RunHandlers(Head(toHub[l]), l)
    /\ UNCHANGED <<loop, listening, message_handlers, clk>>
    /\ UNCHANGED <<ext, config, client_connections, is_connected, link, first, produced>>

\* _client_loop: one frame from the main server
LeafRecv(l) ==
    /\ is_connected[l]
    /\ toLeaf[l] # <<>>
    /\ Receive(l, Head(toLeaf[l]), MAIN_SERVER, toHub, [toLeaf EXCEPT ![l] = Tail(@)])
    /\ UNCHANGED <<aux, config, client_connections, is_connected, link, first, produced>>

Next ==
    \/ \E n \in Nodes : OnInfo(n)
    \/ \E n \in Nodes : OnPlayerJoined(n)
    \/ \E b \in BOOLEAN : OnQQGroupMessage(b)
    \/ \E l \in Leaves, f \in FirstFrames : HandleClient(l, f)
    \/ \E l \in Leaves : LeafAuthenticated(l)
    \/ \E l \in Leaves : Disconnect(l)
    \/ \E l \in Leaves : HubRecv(l)
    \/ \E l \in Leaves : LeafRecv(l)

Spec == Init /\ [][Next]_vars

\* A cluster in which every leaf is connected and authenticated and no socket
\* fails: the per-connection read loops run for ever (weak fairness on each).
InitLive ==
    /\ config \in [Nodes -> Configs(TRUE) \cup Configs(FALSE)]
    /\ \A n \in Nodes : config[n].main_server = (n = MAIN_SERVER)
    /\ config[MAIN_SERVER].sync_mc_to_mc
    /\ client_connections = Leaves
    /\ is_connected = [l \in Leaves |-> TRUE]
    /\ link = [l \in Leaves |-> "registered"]
    /\ toHub = [l \in Leaves |-> <<>>]
    /\ toLeaf = [l \in Leaves |-> <<>>]
    /\ first = [l \in Leaves |-> AuthFrame(config[MAIN_SERVER].main_server_password)]
    /\ produced = <<>>
    /\ shown = [n \in Nodes |-> [m \in MsgIds |-> 0]]
    /\ qq = [n \in Nodes |-> [m \in MsgIds |-> 0]]
    /\ last = NoStep
    /\ loop = [l \in Leaves |-> LoopStart]
    /\ listening = TRUE
    /\ NoQueries
    /\ NoBytes
    /\ NoThreads

NextLive ==
    \/ \E n \in Nodes : OnInfo(n)
    \/ \E n \in Nodes : OnPlayerJoined(n)
    \/ \E l \in Leaves : HubRecv(l)
    \/ \E l \in Leaves : LeafRecv(l)

LiveSpec ==
    /\ InitLive
    /\ [][NextLive]_vars
    /\ \A l \in Leaves : WF_vars(HubRecv(l)) /\ WF_vars(LeafRecv(l))

\* ---------------------------------------------------- router under any input
\* A cluster with every leaf connected in which the program at the far end of
\* a socket need not be this plugin: whatever length-prefixed JSON arrives is
\* decoded and dispatched (_receive_message, _handle_received_message), so a
\* node can read an envelope of any kind from its peer.
InitRouter ==
    /\ config \in [Nodes -> Configs(TRUE) \cup Configs(FALSE)]
    /\ \A n \in Nodes : config[n].main_server = (n = MAIN_SERVER)
    /\ client_connections = Leaves
    /\ is_connected = [l \in Leaves |-> TRUE]
    /\ link = [l \in Leaves |-> "registered"]
    /\ toHub = [l \in Leaves |-> <<>>]
    /\ toLeaf = [l \in Leaves |-> <<>>]
    /\ first = [l \in Leaves |-> AuthFrame(config[MAIN_SERVER].main_server_password)]
    /\ produced = <<>>
    /\ shown = [n \in Nodes |-> [m \in MsgIds |-> 0]]
    /\ qq = [n \in Nodes |-> [m \in MsgIds |-> 0]]
    /\ last = NoStep
    /\ loop = [l \in Leaves |-> LoopStart]
    /\ listening = TRUE
    /\ NoQueries
    /\ NoBytes
    /\ NoThreads

\* the envelope of kind k and text / correlation id <<m>> named after node n
AnyEnvelope(k, n, m) ==
    ChatSyncObj(k, n, IF k \in {5, 6} THEN None ELSE Player,
                IF k = 6 THEN <<m, Delim>> \o RosterText(n) ELSE <<m>>)

\* the peer on client socket l writes an envelope of kind k to the hub
PeerWrites(l, k) ==
    /\ Len(produced) < MaxMsgs
    /\ l \in client_connections
    /\ produced' = Append(produced, l)
    /\ toHub' = [toHub EXCEPT ![l] = Append(@, ChatSyncFrame(AnyEnvelope(k, l, Len(produced) + 1)))]
    /\ last' = [NoStep EXCEPT !.op = "peer", !.node = l]
    /\ UNCHANGED <<aux, config, client_connections, is_connected, link, toLeaf, first, shown, qq>>

\* the server leaf l is connected to writes an envelope of kind k to it
ServerWrites(l, k) ==
    /\ Len(produced) < MaxMsgs
    /\ is_connected[l]
    /\ produced' = Append(produced, MAIN_SERVER)
    /\ toLeaf' = [toLeaf EXCEPT ![l] = Append(@, ChatSyncFrame(AnyEnvelope(k, MAIN_SERVER, Len(produced) + 1)))]
    /\ last' = [NoStep EXCEPT !.op = "peer", !.node = MAIN_SERVER]
    /\ UNCHANGED <<aux, config, client_connections, is_connected, link, toHub, first, shown, qq>>

NextRouter ==
    \/ \E l \in Leaves, k \in 0..6 : PeerWrites(l, k)
    \/ \E l \in Leaves, k \in 0..6 : ServerWrites(l, k)
    \/ \E l \in Leaves : HubRecv(l)
    \/ \E l \in Leaves : LeafRecv(l)

RouterSpec == InitRouter /\ [][NextRouter]_vars

\* ------------------------------------------------ the leaf's reconnect loop
\* Leaves whose _client_loop thread has just started, each with its own
\* configured password, and a hub that may or may not be listening.  Time is
\* counted in the units of time.sleep; Tick lets one unit pass.
InitReconnect ==
    /\ \E pw \in [Leaves -> Passwords] :
           config = [n \in Nodes |->
                        [main_server |-> (n = MAIN_SERVER),
                         main_server_password |-> IF n = MAIN_SERVER THEN "secret" ELSE pw[n],
                         sync_mc_to_mc |-> TRUE, sync_mc_to_qq |-> TRUE]]
    /\ client_connections = {}
    /\ is_connected = [l \in Leaves |-> FALSE]
    /\ link = [l \in Leaves |-> "closed"]
    /\ toHub = [l \in Leaves |-> <<>>]
    /\ toLeaf = [l \in Leaves |-> <<>>]
    /\ first = [l \in Leaves |-> NoFrame]
    /\ produced = <<>>
    /\ shown = [n \in Nodes |-> [m \in MsgIds |-> 0]]
    /\ qq = [n \in Nodes |-> [m \in MsgIds |-> 0]]
    /\ last = NoStep
    /\ loop = [l \in Leaves |-> LoopStart]
    /\ listening \in BOOLEAN
    /\ NoQueries
    /\ NoBytes
    /\ NoThreads

\* mutant of AfterConnect: a failed attempt is followed by a sleep of one unit
AfterConnect_ShortSleep(lp, ok) ==
    IF ok
    THEN [lp EXCEPT !.pc = "recv", !.since = None]
    ELSE [lp EXCEPT !.pc = "sleep", !.timer = 1,
                    !.since = None, !.failed = TRUE]

\* mutant of AfterConnect: the loop gives up after a failed attempt
AfterConnect_GivesUp(lp, ok) ==
    IF ok
    THEN [lp EXCEPT !.pc = "recv", !.since = None]
    ELSE [lp EXCEPT !.pc = "done", !.since = None, !.failed = TRUE]

\* _client_loop after its call of _connect_to_server returned ok: on to
\* _receive_message if connected, else into time.sleep(5)
AfterConnect(lp, ok) ==
    IF ok
    THEN [lp EXCEPT !.pc = "recv", !.since = None]
    ELSE [lp EXCEPT !.pc = "sleep", !.timer = RECONNECT_DELAY,
                    !.since = None, !.failed = TRUE]

\* _connect_to_server succeeds iff the hub accepts the socket and
\* _authenticate_client accepts the leaf's password
ConnectToServer(l) ==
    listening /\ AuthenticateClient(AuthFrame(config[l].main_server_password))

\* _client_loop, from the while test: connect if not connected (the hub's
\* _handle_client registers the socket on success), then either block in
\* _receive_message or sleep
ClientLoop(l) ==
    /\ loop[l].pc = "top"
    /\ IF is_connected[l]
       THEN /\ loop' = [loop EXCEPT ![l].pc = "recv"]
            /\ UNCHANGED <<is_connected, link, client_connections, first>>
       ELSE LET ok == ConnectToServer(l)
            IN  /\ loop' = [loop EXCEPT ![l] = AfterConnect(@, ok)]
                /\ is_connected' = [is_connected EXCEPT ![l] = ok]
                /\ IF ok
                   THEN /\ link' = [link EXCEPT ![l] = "registered"]
                        /\ client_connections' = client_connections \cup {l}
                        /\ first' = [first EXCEPT ![l] = AuthFrame(config[l].main_server_password)]
                   ELSE UNCHANGED <<link, client_connections, first>>
    /\ UNCHANGED last
    /\ UNCHANGED <<ext, config, toHub, toLeaf, produced, shown, qq, listening, message_handlers, agg, clk>>

\* _client_loop inside _receive_message: a frame is handled; None (the
\* socket is closed) clears is_connected and continues the loop
ClientReceive(l) ==
    /\ loop[l].pc = "recv"
    /\ IF toLeaf[l] # <<>>
       THEN /\ Receive(l, Head(toLeaf[l]), MAIN_SERVER, toHub, [toLeaf EXCEPT ![l] = Tail(@)])
            /\ loop' = [loop EXCEPT ![l].pc = "top"]
            /\ UNCHANGED is_connected
       ELSE /\ link[l] = "closed"
            /\ is_connected' = [is_connected EXCEPT ![l] = FALSE]
            /\ loop' = [loop EXCEPT ![l].pc = "top", ![l].since = 0]
            /\ UNCHANGED last
            /\ UNCHANGED <<toHub, toLeaf, shown, qq>>
    /\ UNCHANGED <<ext, config, client_connections, link, first, produced, listening, message_handlers, agg, clk>>

\* time.sleep(5) returns
SleepEnds(l) ==
    /\ loop[l].pc = "sleep"
    /\ loop[l].timer = 0
    /\ loop' = [loop EXCEPT ![l].pc = "top"]
    /\ UNCHANGED last
    /\ UNCHANGED <<ext, config, client_connections, is_connected, link, toHub, toLeaf, first,
                   produced, shown, qq, listening, message_handlers, agg, clk>>

\* one time unit passes
Tick ==
    /\ loop' = [l \in Leaves |->
                  [loop[l] EXCEPT
                     !.timer = IF @ > 0 THEN @ - 1 ELSE 0,
                     !.since = IF @ = None THEN None
                               ELSE IF @ < RECONNECT_DELAY THEN @ + 1 ELSE @]]
    /\ UNCHANGED last
    /\ UNCHANGED <<ext, config, client_connections, is_connected, link, toHub, toLeaf, first,
                   produced, shown, qq, listening, message_handlers, agg, clk>>

\* the established socket of leaf l is closed (by the hub's side or the
\* network): the hub's _handle_client thread deregisters it
SocketCloses(l) ==
    /\ link[l] = "registered"
    /\ link' = [link EXCEPT ![l] = "closed"]
    /\ client_connections' = client_connections \ {l}
    /\ toHub' = [toHub EXCEPT ![l] = <<>>]
    /\ toLeaf' = [toLeaf EXCEPT ![l] = <<>>]
    /\ first' = [first EXCEPT ![l] = NoFrame]
    /\ UNCHANGED last
    /\ UNCHANGED <<config, is_connected, produced, shown, qq, aux>>

\* _stop_server: the listening socket and every client socket are closed
StopServer ==
    /\ listening
    /\ listening' = FALSE
    /\ link' = [l \in Leaves |-> "closed"]
    /\ client_connections' = {}
    /\ toHub' = [l \in Leaves |-> <<>>]
    /\ toLeaf' = [l \in Leaves |-> <<>>]
    /\ first' = [l \in Leaves |-> NoFrame]
    /\ UNCHANGED last
    /\ UNCHANGED <<ext, config, is_connected, produced, shown, qq, loop, message_handlers, agg, clk>>

\* _start_server: bind, listen, start _server_loop
StartServer ==
    /\ ~listening
    /\ listening' = TRUE
    /\ UNCHANGED last
    /\ UNCHANGED <<ext, config, client_connections, is_connected, link, toHub, toLeaf, first,
                   produced, shown, qq, loop, message_handlers, agg, clk>>

NextReconnect ==
    \/ \E l \in Leaves : ClientLoop(l)
    \/ \E l \in Leaves : ClientReceive(l)
    \/ \E l \in Leaves : SleepEnds(l)
    \/ Tick
    \/ \E l \in Leaves : SocketCloses(l)
    \/ StopServer
    \/ StartServer

\* the client thread keeps running and time keeps passing
ReconnectSpec ==
    /\ InitReconnect
    /\ [][NextReconnect]_vars
    /\ WF_vars(Tick)
    /\ \A l \in Leaves :
           WF_vars(ClientLoop(l)) /\ WF_vars(ClientReceive(l)) /\ WF_vars(SleepEnds(l))

\* ------------------------------------------------ the roster query (utils.py)
\* A hub with any set of leaves registered, on which /list is issued.
InitRoster ==
    /\ config = [n \in Nodes |->
                    [main_server |-> (n = MAIN_SERVER), main_server_password |-> "secret",
                     sync_mc_to_mc |-> TRUE, sync_mc_to_qq |-> TRUE]]
    /\ client_connections \in SUBSET Leaves
    /\ is_connected = [l \in Leaves |-> l \in client_connections]
    /\ link = [l \in Leaves |-> IF l \in client_connections THEN "registered" ELSE "closed"]
    /\ toHub = [l \in Leaves |-> <<>>]
    /\ toLeaf = [l \in Leaves |-> <<>>]
    /\ first = [l \in Leaves |-> IF l \in client_connections THEN AuthFrame("secret") ELSE NoFrame]
    /\ produced = <<>>
    /\ shown = [n \in Nodes |-> [m \in MsgIds |-> 0]]
    /\ qq = [n \in Nodes |-> [m \in MsgIds |-> 0]]
    /\ last = NoStep
    /\ loop = [l \in Leaves |-> LoopStart]
    /\ listening = TRUE
    /\ NoQueries
    /\ NoBytes
    /\ NoThreads

\* list.remove(handler) when the handler is in the list
RemoveHandler(handlers, h) ==
    IF \E i \in DOMAIN handlers : handlers[i] = h
    THEN LET k == CHOOSE i \in DOMAIN handlers :
                      handlers[i] = h /\ \A j \in 1..(i - 1) : handlers[j] # h
         IN  SubSeq(handlers, 1, k - 1) \o SubSeq(handlers, k + 1, Len(handlers))
    ELSE handlers

\* mutant of AllLists: the note counts every expected leaf
AllLists_NoteCountsExpected(a) ==
    <<RosterText(MAIN_SERVER)>>
        \o [i \in DOMAIN a.responses |-> a.responses[i][2]]
        \o (IF Len(a.responses) < a.expected
            THEN <<<<TimeoutNote, a.expected>>>>
            ELSE <<>>)

\* mutant of AllLists: the note is appended also when every leaf replied
AllLists_NoteAlways(a) ==
    <<RosterText(MAIN_SERVER)>>
        \o [i \in DOMAIN a.responses |-> a.responses[i][2]]
        \o <<<<TimeoutNote, a.expected - Len(a.responses)>>>>

\* the parts of the text the call returns after its wait: the local roster,
\* responses.values(), and the note when fewer than expected replied
AllLists(a) ==
    <<RosterText(MAIN_SERVER)>>
        \o [i \in DOMAIN a.responses |-> a.responses[i][2]]
        \o (IF Len(a.responses) < a.expected
            THEN <<<<TimeoutNote, a.expected - Len(a.responses)>>>>
            ELSE <<>>)

\* mutant of GetAllPlayerLists: the zero-leaves return is missing
GetAllPlayerLists_NoZeroCheck(q) ==
    /\ agg[q].pc = "idle"
    /\ \A p \in Queries : p < q => agg[p].pc # "idle"
    /\ LET id == IF clk.advanced THEN clk.issued + 1 ELSE clk.issued
       IN  /\ agg' = [agg EXCEPT ![q].pc = "broadcast", ![q].request_id = id,
                                 ![q].checked = client_connections]
           /\ message_handlers' = Append(message_handlers, q)
           /\ clk' = [issued |-> id, advanced |-> FALSE]
    /\ last' = NoStep
    /\ UNCHANGED <<ext, config, client_connections, is_connected, link, toHub, toLeaf, first,
                   produced, shown, qq, loop, listening>>

\* get_all_player_lists up to register_message_handler: the local roster, the
\* zero-leaves return, the request id from the clock, the handler
GetAllPlayerLists(q) ==
    /\ agg[q].pc = "idle"
    /\ \A p \in Queries : p < q => agg[p].pc # "idle"
    /\ IF client_connections = {}
       THEN /\ agg' = [agg EXCEPT ![q].pc = "done", ![q].result = <<RosterText(MAIN_SERVER)>>]
            /\ UNCHANGED <<message_handlers, clk>>
       ELSE LET id == IF clk.advanced THEN clk.issued + 1 ELSE clk.issued
            IN  /\ agg' = [agg EXCEPT ![q].pc = "broadcast", ![q].request_id = id,
                                      ![q].checked = client_connections]
                /\ message_handlers' = Append(message_handlers, q)
                /\ clk' = [issued |-> id, advanced |-> FALSE]
    /\ last' = NoStep
    /\ UNCHANGED <<ext, config, client_connections, is_connected, link, toHub, toLeaf, first,
                   produced, shown, qq, loop, listening>>

\* the first /list
QueryStart(q) ==
    /\ \A p \in Queries : agg[p].pc = "idle"
    /\ GetAllPlayerLists(q)

\* /list while another call is waiting: on_qq_group_message is a coroutine and
\* a second one runs while the first awaits
QueryStartDuring(q) ==
    /\ \E p \in Queries : agg[p].pc \notin {"idle", "done"}
    /\ GetAllPlayerLists(q)

\* network_manager.send_chat_sync_message(request_obj)
QueryBroadcast(q) ==
    /\ agg[q].pc = "broadcast"
    /\ LET obj == ChatSyncObj(5, MAIN_SERVER, None, <<agg[q].request_id>>)
           e == Effect(0, 0, 0, SendChatSyncMessage(MAIN_SERVER, obj, None))
       IN  /\ WriteAll(MAIN_SERVER, e.sentTo, toHub, toLeaf)
           /\ last' = Step("query", MAIN_SERVER, None, ChatSyncFrame(obj), e)
    /\ agg' = [agg EXCEPT ![q].pc = "count", ![q].sent = client_connections]
    /\ UNCHANGED <<ext, config, client_connections, is_connected, link, first, produced, shown, qq,
                   loop, listening, message_handlers, clk>>

\* expected_responses = len(client_connections); start_time = time.time()
QueryCount(q) ==
    /\ agg[q].pc = "count"
    /\ agg' = [agg EXCEPT ![q].pc = "poll", ![q].expected = Cardinality(client_connections),
                          ![q].counted = client_connections, ![q].elapsed = 0]
    /\ last' = NoStep
    /\ UNCHANGED <<ext, config, client_connections, is_connected, link, toHub, toLeaf, first,
                   produced, shown, qq, loop, listening, message_handlers, clk>>

\* mutant of StillWaiting: the reply count alone ends the wait
StillWaiting_NoTimeout(a) ==
    Len(a.responses) < a.expected

\* the while test of the wait
StillWaiting(a) ==
    Len(a.responses) < a.expected /\ a.elapsed < TIMEOUT

\* one round of the wait: the while test, then either asyncio.sleep(0.1), over
\* which one polling interval passes, or the rest of the call: the handler is
\* removed and the result built
QueryPoll(q) ==
    /\ agg[q].pc = "poll"
    /\ IF StillWaiting(agg[q])
       THEN /\ agg' = [agg EXCEPT ![q].elapsed = @ + POLL]
            /\ clk' = [clk EXCEPT !.advanced = TRUE]
            /\ UNCHANGED message_handlers
       ELSE /\ agg' = [agg EXCEPT ![q].pc = "done", ![q].result = AllLists(agg[q])]
            /\ message_handlers' = RemoveHandler(message_handlers, q)
            /\ UNCHANGED clk
    /\ last' = NoStep
    /\ UNCHANGED <<ext, config, client_connections, is_connected, link, toHub, toLeaf, first,
                   produced, shown, qq, loop, listening>>

\* a millisecond passes: int(time.time() * 1000) will read a new value
ClockAdvances ==
    /\ ~clk.advanced
    /\ clk' = [clk EXCEPT !.advanced = TRUE]
    /\ last' = NoStep
    /\ UNCHANGED <<ext, config, client_connections, is_connected, link, toHub, toLeaf, first,
                   produced, shown, qq, loop, listening, message_handlers, agg>>

NextRoster ==
    \/ \E q \in Queries : QueryStart(q)
    \/ \E q \in Queries : QueryBroadcast(q)
    \/ \E q \in Queries : QueryCount(q)
    \/ \E q \in Queries : QueryPoll(q)
    \/ \E l \in Leaves : HubRecv(l)
    \/ \E l \in Leaves : LeafRecv(l)
    \/ \E l \in Leaves : Disconnect(l)

\* the next step of the coroutine running call q
QueryStep(q) == QueryBroadcast(q) \/ QueryCount(q) \/ QueryPoll(q)

\* the coroutine is scheduled and time passes; nothing is assumed of the leaves
RosterSpec ==
    /\ InitRoster
    /\ [][NextRoster]_vars
    /\ \A q \in Queries : WF_vars(QueryStep(q))

\* Two /list commands close together on a hub whose leaves stay connected;
\* the calls are followed up to the start of their wait.
NextRosterPair ==
    \/ \E q \in Queries : QueryStart(q)
    \/ \E q \in Queries : QueryStartDuring(q)
    \/ \E q \in Queries : QueryBroadcast(q)
    \/ \E q \in Queries : QueryCount(q)
    \/ ClockAdvances
    \/ \E l \in Leaves : HubRecv(l)
    \/ \E l \in Leaves : LeafRecv(l)

RosterPairSpec == InitRoster /\ [][NextRosterPair]_vars

\* ------------------------------------------ framing (network.py 330-379)
\* One direction of one connection at the level of bytes.  A record is sent
\* as the 4-byte big-endian length of its JSON text, then the text; the socket
\* hands the reader any non-empty part of what it asked for.

\* the records sent on a connection after authentication
Payloads == {PingFrame, PongFrame, AuthResponse(TRUE)}

\* json.dumps(data).encode('utf-8'), each text shortened to a few bytes; the
\* texts have different lengths and one is the beginning of another
Dumps(data) ==
    CASE data = PingFrame -> <<7>>
      [] data = PongFrame -> <<7, 8>>
      [] data = AuthResponse(TRUE) -> <<8, 7, 7>>

\* the bytes are the JSON text of some record
Decodable(bytes) == \E x \in Payloads : Dumps(x) = bytes

\* json.loads(message_bytes.decode('utf-8')), where it does not raise
Loads(bytes) == CHOOSE x \in Payloads : Dumps(x) = bytes

\* int.to_bytes(4, byteorder='big')
ToBytes(n) ==
    <<(n \div 16777216) % 256, (n \div 65536) % 256, (n \div 256) % 256, n % 256>>

\* int.from_bytes(length_bytes, byteorder='big')
RECURSIVE FromBytes(_)
FromBytes(b) ==
    IF b = <<>> THEN 0
    ELSE FromBytes(SubSeq(b, 1, Len(b) - 1)) * 256 + b[Len(b)]

Min(a, b) == IF a < b THEN a ELSE b

\* the rest of the cluster stands still while the bytes move
QuietCluster ==
    UNCHANGED <<config, client_connections, is_connected, link, toHub, toLeaf, first,
                produced, shown, qq, last, loop, listening, message_handlers, agg, clk,
                ctx, socks, should_stop, server_loop, it, events, client_socket, life>>

\* _send_message, first sendall: the length
SendMessageLength(w, data) ==
    /\ send[w].pc = "idle"
    /\ ~sock.eof
    /\ Len(written) < MaxFrames
    /\ sock' = [sock EXCEPT !.bytes = @ \o ToBytes(Len(Dumps(data)))]
    /\ send' = [send EXCEPT ![w] = [pc |-> "payload", data |-> data]]
    /\ written' = Append(written, data)
    /\ UNCHANGED <<recv, returned>>
    /\ QuietCluster

\* _send_message, second sendall: the text
SendMessagePayload(w) ==
    /\ send[w].pc = "payload"
    /\ ~sock.eof
    /\ sock' = [sock EXCEPT !.bytes = @ \o Dumps(send[w].data)]
    /\ send' = [send EXCEPT ![w] = NoSend]
    /\ UNCHANGED <<recv, written, returned>>
    /\ QuietCluster

\* what one return of _receive_message is recorded as: the value, and how the
\* call ended ("ok", "eof_length" / "eof_payload" the peer closed before the
\* length / the payload was complete, "empty" a zero length, "undecodable")
Returned(value, how) == [value |-> value, how |-> how]

\* the raise of json.loads / decode, as a value
RaisedFrame == [type |-> "raised"]

\* mutant of ReceiveMessage: an undecodable payload raises to the caller
ReceiveMessage_Raises(message_bytes) ==
    IF message_bytes = <<>> THEN Returned(ClosedFrame, "empty")
    ELSE IF Decodable(message_bytes) THEN Returned(Loads(message_bytes), "ok")
         ELSE Returned(RaisedFrame, "undecodable")

\* _receive_message once _receive_exact has returned the payload: falsy bytes
\* and any exception give None
ReceiveMessage(message_bytes) ==
    IF message_bytes = <<>> THEN Returned(ClosedFrame, "empty")
    ELSE IF Decodable(message_bytes) THEN Returned(Loads(message_bytes), "ok")
         ELSE Returned(ClosedFrame, "undecodable")

\* mutant of ReceiveExactDone: the first chunk is taken for the whole
ReceiveExactDone_FirstChunk(data, length) ==
    Len(data) > 0 \/ length = 0

\* the while test of _receive_exact, negated
ReceiveExactDone(data, length) ==
    Len(data) >= length

\* the reader after one return of _receive_message: a caller that got None
\* leaves its read loop, any other calls again
AfterReturn(r) ==
    /\ returned' = Append(returned, r)
    /\ recv' = IF r.value = ClosedFrame
               THEN [recv EXCEPT !.pc = "stopped", !.data = <<>>]
               ELSE [NoRecv EXCEPT !.short = recv.short]

\* _receive_exact: sock.recv(length - len(data)) returns k bytes
RecvChunk(k) ==
    /\ recv.pc \in {"length", "payload"}
    /\ k \in 1..Min(recv.length - Len(recv.data), Len(sock.bytes))
    /\ sock' = [sock EXCEPT !.bytes = SubSeq(@, k + 1, Len(@))]
    /\ LET data == recv.data \o SubSeq(sock.bytes, 1, k)
           short == recv.short \/ k < recv.length - Len(recv.data)
       IN  IF ~ReceiveExactDone(data, recv.length)
           THEN /\ recv' = [recv EXCEPT !.data = data, !.short = short]
                /\ UNCHANGED returned
           ELSE IF recv.pc = "length"
                THEN IF FromBytes(data) = 0
                     THEN AfterReturn(ReceiveMessage(<<>>))
                     ELSE /\ recv' = [pc |-> "payload", data |-> <<>>,
                                      length |-> FromBytes(data), short |-> short]
                          /\ UNCHANGED returned
                ELSE AfterReturn(ReceiveMessage(data))
    /\ UNCHANGED <<send, written>>
    /\ QuietCluster

\* _receive_exact: sock.recv returns b'' because the peer has closed
RecvEof ==
    /\ recv.pc \in {"length", "payload"}
    /\ sock.bytes = <<>>
    /\ sock.eof
    /\ AfterReturn(Returned(ClosedFrame, IF recv.pc = "length" THEN "eof_length" ELSE "eof_payload"))
    /\ UNCHANGED <<sock, send, written>>
    /\ QuietCluster

\* the writing end is closed, at any point of a _send_message call
PeerCloses ==
    /\ ~sock.eof
    /\ sock' = [sock EXCEPT !.eof = TRUE]
    /\ UNCHANGED <<send, recv, written, returned>>
    /\ QuietCluster

\* byte strings a peer that is not this plugin may write: a zero length, a
\* length with a text that is no JSON, half a length
RawWrites == {ToBytes(0), ToBytes(1) \o <<9>>, ToBytes(2) \o <<8, 7>>, <<0, 0>>}

\* such a peer writes one of them
PeerWritesRaw(bytes) ==
    /\ ~sock.eof
    /\ \A w \in Writers : send[w].pc = "idle"
    /\ Len(written) < MaxFrames
    /\ sock' = [sock EXCEPT !.bytes = @ \o bytes]
    /\ written' = Append(written, [type |-> "raw", bytes |-> bytes])
    /\ UNCHANGED <<send, recv, returned>>
    /\ QuietCluster

InitFrame ==
    /\ config = [n \in Nodes |->
                    [main_server |-> (n = MAIN_SERVER), main_server_password |-> "secret",
                     sync_mc_to_mc |-> TRUE, sync_mc_to_qq |-> TRUE]]
    /\ client_connections = Leaves
    /\ is_connected = [l \in Leaves |-> TRUE]
    /\ link = [l \in Leaves |-> "registered"]
    /\ toHub = [l \in Leaves |-> <<>>]
    /\ toLeaf = [l \in Leaves |-> <<>>]
    /\ first = [l \in Leaves |-> AuthFrame(config[MAIN_SERVER].main_server_password)]
    /\ produced = <<>>
    /\ shown = [n \in Nodes |-> [m \in MsgIds |-> 0]]
    /\ qq = [n \in Nodes |-> [m \in MsgIds |-> 0]]
    /\ last = NoStep
    /\ loop = [l \in Leaves |-> LoopStart]
    /\ listening = TRUE
    /\ NoQueries
    /\ NoBytes
    /\ NoThreads

\* one context writes records, the other end reads them
NextFrame ==
    \/ \E x \in Payloads : SendMessageLength(1, x)
    \/ SendMessagePayload(1)
    \/ \E k \in 1..4 : RecvChunk(k)

FrameSpec == InitFrame /\ [][NextFrame]_vars

\* two contexts write records to the same socket
NextInterleave ==
    \/ \E w \in Writers, x \in Payloads : SendMessageLength(w, x)
    \/ \E w \in Writers : SendMessagePayload(w)
    \/ \E k \in 1..4 : RecvChunk(k)

InterleaveSpec == InitFrame /\ [][NextInterleave]_vars

\* a peer that may write anything and close at any time
NextPeer ==
    \/ \E x \in Payloads : SendMessageLength(1, x)
    \/ SendMessagePayload(1)
    \/ \E b \in RawWrites : PeerWritesRaw(b)
    \/ PeerCloses
    \/ \E k \in 1..4 : RecvChunk(k)
    \/ RecvEof

PeerSpec == InitFrame /\ [][NextPeer]_vars

\* --------------------------------------------- ping / pong (network.py 486-505)
\* the frames in flight on all sockets
InFlight ==
    LET RECURSIVE Sum(_)
        Sum(S) == IF S = {} THEN 0
                  ELSE LET l == CHOOSE x \in S : TRUE
                       IN  Len(toHub[l]) + Len(toLeaf[l]) + Sum(S \ {l})
    IN  Sum(Leaves)

\* send_ping: the hub pings every client, a connected leaf pings the hub
SendPing(n) ==
    /\ InFlight < MaxFrames
    /\ LET sentTo == IF IsMainServer(n)
                     THEN BroadcastToClients(n, PingFrame, None)
                     ELSE IF is_connected[n]
                          THEN [d \in Nodes |-> IF d = MAIN_SERVER THEN <<PingFrame>> ELSE <<>>]
                          ELSE NoSends
       IN  /\ WriteAll(n, sentTo, toHub, toLeaf)
           /\ last' = Step("ping", n, None, PingFrame, Effect(0, 0, 0, sentTo))
    /\ UNCHANGED <<aux, config, client_connections, is_connected, link, first, produced, shown, qq>>

\* every leaf connected; pings, chat lines and events in any order
NextPing ==
    \/ \E n \in Nodes : SendPing(n)
    \/ \E n \in Nodes : OnInfo(n)
    \/ \E n \in Nodes : OnPlayerJoined(n)
    \/ \E l \in Leaves : HubRecv(l)
    \/ \E l \in Leaves : LeafRecv(l)

PingSpec == InitFrame /\ [][NextPing]_vars

\* ------------------------------------- the hub's threads (network.py 155-215)
\* Each accepted socket has its own _handle_client thread; the steps of the
\* threads interleave.  A frame in toHub that is ClosedFrame stands for the
\* peer closing or writing bytes that do not decode: _receive_message
\* returns None for it.

\* the variables no thread of the hub touches
HubThreadsOnly ==
    UNCHANGED <<config, is_connected, link, first, last, loop, message_handlers, agg, clk,
                sock, send, recv, written, returned, client_socket, life>>

\* handlers registered through register_message_handler by other callers
\* than on_load and get_all_player_lists
ExtraHandler(i) == MaxQueries + i
ExtraHandlers == {ExtraHandler(1), ExtraHandler(2)}

Event(kind, c, data, invoked, raised) ==
    [kind |-> kind, conn |-> c, data |-> data, invoked |-> invoked, raised |-> raised]

\* mutant of ReceiveNext: the newest unread frame is returned first
ReceiveNext_Newest(queue) ==
    [data |-> queue[Len(queue)], rest |-> SubSeq(queue, 1, Len(queue) - 1)]

\* _receive_message on a socket with unread frames: the oldest one
ReceiveNext(queue) ==
    [data |-> Head(queue), rest |-> Tail(queue)]

\* mutant of Dispatch: the first handler that raises ends the handler loop
Dispatch_AbortOnRaise(handlers, raising) ==
    LET bad == {i \in DOMAIN handlers : handlers[i] \in raising}
    IN  IF bad = {}
        THEN [invoked |-> handlers, completed |-> TRUE]
        ELSE [invoked |-> SubSeq(handlers, 1, CHOOSE i \in bad : \A j \in bad : i <= j),
              completed |-> FALSE]

\* the handler loop of _handle_chat_sync_message when the handlers in raising
\* raise: each call has its own try / except, so every handler is called and
\* the loop completes
Dispatch(handlers, raising) ==
    [invoked |-> handlers, completed |-> TRUE]

\* mutant of Finally: the client id stays in the registry
Finally_KeepsEntry(c) ==
    /\ client_connections' = client_connections
    /\ socks' = [socks EXCEPT ![c] = "closed"]
    /\ ctx' = [ctx EXCEPT ![c] = [pc |-> "exited", data |-> NoFrame]]
    /\ it' = it
    /\ events' = Append(events, Event("exit", c, NoFrame, <<>>, {}))

\* the finally block of _handle_client: deregister, close
Finally(c) ==
    /\ client_connections' = client_connections \ {c}
    /\ socks' = [socks EXCEPT ![c] = "closed"]
    /\ ctx' = [ctx EXCEPT ![c] = [pc |-> "exited", data |-> NoFrame]]
    /\ it' = IF it.pc = "iter" THEN [it EXCEPT !.stable = @ \ {c}] ELSE it
    /\ events' = Append(events, Event("exit", c, NoFrame, <<>>, {}))

\* a leaf's player chats (on_info) or triggers an event: one envelope to the hub
LeafSends(l, is_event) ==
    /\ Len(produced) < MaxFrames
    /\ is_connected[l]
    /\ LET r == LocalEffect(l, is_event, Len(produced) + 1)
       IN  WriteAll(l, r.e.sentTo, toHub, toLeaf)
    /\ produced' = Append(produced, l)
    /\ UNCHANGED <<client_connections, shown, qq, listening, ctx, socks, should_stop,
                   server_loop, it, events>>
    /\ HubThreadsOnly

\* _handle_client at `while not self.should_stop`
CtxLoop(c) ==
    /\ ctx[c].pc = "loop"
    /\ IF should_stop
       THEN Finally(c)
       ELSE /\ ctx' = [ctx EXCEPT ![c].pc = "recv"]
            /\ UNCHANGED <<client_connections, socks, it, events>>
    /\ UNCHANGED <<toHub, toLeaf, produced, shown, qq, listening, should_stop, server_loop>>
    /\ HubThreadsOnly

\* _handle_client in _receive_message: None when the socket was closed under
\* it or the peer ended, else the next frame, which _handle_received_message
\* gives to the handler loop (chat_sync_obj) or answers itself
CtxRecv(c) ==
    /\ ctx[c].pc = "recv"
    /\ \/ /\ socks[c] = "closed"
          /\ Finally(c)
          /\ UNCHANGED <<toHub, toLeaf, shown, qq>>
       \/ /\ socks[c] = "open"
          /\ toHub[c] # <<>>
          /\ LET r == ReceiveNext(toHub[c])
                 qHub == [toHub EXCEPT ![c] = r.rest]
             IN  IF r.data = ClosedFrame
                 THEN /\ Finally(c)
                      /\ toHub' = qHub
                      /\ UNCHANGED <<toLeaf, shown, qq>>
                 ELSE IF r.data.type = "chat_sync_obj"
                 THEN /\ ctx' = [ctx EXCEPT ![c] = [pc |-> "handlers", data |-> r.data]]
                      /\ toHub' = qHub
                      /\ events' = Append(events, Event("read", c, r.data, <<>>, {}))
                      /\ UNCHANGED <<client_connections, socks, it, toLeaf, shown, qq>>
                 ELSE /\ WriteAll(MAIN_SERVER, HandleReceivedMessage(MAIN_SERVER, r.data, c).sentTo,
                                  qHub, toLeaf)
                      /\ ctx' = [ctx EXCEPT ![c].pc = "loop"]
                      /\ UNCHANGED <<client_connections, socks, it, shown, qq, events>>
    /\ UNCHANGED <<produced, listening, should_stop, server_loop>>
    /\ HubThreadsOnly

\* _handle_chat_sync_message, the handler loop, with the handlers in raising
\* raising on this envelope
CtxHandlers(c, raising) ==
    /\ ctx[c].pc = "handlers"
    /\ raising \subseteq {message_handlers[i] : i \in DOMAIN message_handlers}
    /\ LET data == ctx[c].data
           d == Dispatch(message_handlers, raising)
           e == IF \E i \in DOMAIN d.invoked : d.invoked[i] = HANDLE_NETWORK_MESSAGE
                THEN HandleNetworkMessage(MAIN_SERVER, data, c)
                ELSE NoEffect
           m == MsgOf(data)
       IN  /\ WriteAll(MAIN_SERVER, e.sentTo, toHub, toLeaf)
           /\ IF m \in MsgIds THEN Record(MAIN_SERVER, m, e) ELSE UNCHANGED <<shown, qq>>
           /\ events' = Append(events, Event("handlers", c, data, d.invoked,
                                             raising \cap {d.invoked[i] : i \in DOMAIN d.invoked}))
           /\ ctx' = [ctx EXCEPT ![c].pc = IF d.completed THEN "forward" ELSE "loop"]
    /\ UNCHANGED <<client_connections, produced, listening, socks, should_stop, server_loop, it>>
    /\ HubThreadsOnly

\* _handle_chat_sync_message after the handler loop: the frame is sent on to
\* every other client
CtxForward(c) ==
    /\ ctx[c].pc = "forward"
    /\ WriteAll(MAIN_SERVER, BroadcastToClients(MAIN_SERVER, ctx[c].data, c), toHub, toLeaf)
    /\ events' = Append(events, Event("forward", c, ctx[c].data, <<>>, {}))
    /\ ctx' = [ctx EXCEPT ![c] = [pc |-> "loop", data |-> NoFrame]]
    /\ UNCHANGED <<client_connections, produced, shown, qq, listening, socks, should_stop,
                   server_loop, it>>
    /\ HubThreadsOnly

\* a hub with every leaf registered, its thread at the top of the read loop,
\* handle_network_message and two more handlers registered, no handler of the
\* two known to raise or not
InitOrder ==
    /\ \E mc, mq \in BOOLEAN :
           config = [n \in Nodes |->
                        [main_server |-> (n = MAIN_SERVER), main_server_password |-> "secret",
                         sync_mc_to_mc |-> IF n = MAIN_SERVER THEN mc ELSE TRUE,
                         sync_mc_to_qq |-> IF n = MAIN_SERVER THEN mq ELSE TRUE]]
    /\ client_connections = Leaves
    /\ is_connected = [l \in Leaves |-> TRUE]
    /\ link = [l \in Leaves |-> "registered"]
    /\ toHub = [l \in Leaves |-> <<>>]
    /\ toLeaf = [l \in Leaves |-> <<>>]
    /\ first = [l \in Leaves |-> AuthFrame("secret")]
    /\ produced = <<>>
    /\ shown = [n \in Nodes |-> [m \in MsgIds |-> 0]]
    /\ qq = [n \in Nodes |-> [m \in MsgIds |-> 0]]
    /\ last = NoStep
    /\ loop = [l \in Leaves |-> LoopStart]
    /\ listening = TRUE
    /\ message_handlers = <<HANDLE_NETWORK_MESSAGE, ExtraHandler(1), ExtraHandler(2)>>
    /\ agg = [q \in Queries |-> NoQuery]
    /\ clk = [issued |-> 0, advanced |-> TRUE]
    /\ NoBytes
    /\ ctx = [c \in Leaves |-> [pc |-> "loop", data |-> NoFrame]]
    /\ socks = [c \in Leaves |-> "open"]
    /\ should_stop = FALSE
    /\ server_loop = "accept"
    /\ it = NoIter
    /\ events = <<>>
    /\ client_socket = [l \in Leaves |-> [open |-> {}, cur |-> None]]
    /\ NoLife

NextOrder ==
    \/ \E l \in Leaves, b \in BOOLEAN : LeafSends(l, b)
    \/ \E c \in Leaves : CtxLoop(c)
    \/ \E c \in Leaves : CtxRecv(c)
    \/ \E c \in Leaves, raising \in SUBSET ExtraHandlers : CtxHandlers(c, raising)
    \/ \E c \in Leaves : CtxForward(c)

\* the next step of the _handle_client thread of socket c
CtxStep(c) ==
    \/ CtxLoop(c)
    \/ CtxRecv(c)
    \/ \E raising \in SUBSET ExtraHandlers : CtxHandlers(c, raising)
    \/ CtxForward(c)

\* every thread of the hub keeps running
OrderSpec ==
    /\ InitOrder
    /\ [][NextOrder]_vars
    /\ \A c \in Leaves : WF_vars(CtxStep(c))

\* ------------------------- stop and broadcast on the hub (network.py 70-140, 430-442)
\* _server_loop: a connection is accepted and its thread started; f is the
\* first frame the peer sends on it
AcceptClient(c, f) ==
    /\ server_loop = "accept"
    /\ listening
    /\ ctx[c].pc = "none"
    /\ socks' = [socks EXCEPT ![c] = "open"]
    /\ ctx' = [ctx EXCEPT ![c] = [pc |-> "auth", data |-> f]]
    /\ UNCHANGED <<client_connections, toHub, toLeaf, produced, shown, qq, listening,
                   should_stop, server_loop, it, events>>
    /\ HubThreadsOnly

\* _server_loop: accept fails on the closed listening socket, the loop ends
ServerLoopExits ==
    /\ server_loop = "accept"
    /\ ~listening
    /\ server_loop' = "exited"
    /\ UNCHANGED <<client_connections, toHub, toLeaf, produced, shown, qq, listening,
                   ctx, socks, should_stop, it, events>>
    /\ HubThreadsOnly

\* _handle_client up to its read loop: the first frame arrives and
\* _authenticate_client accepts it (the client is registered) or not (the
\* socket is closed and the thread ends through the finally block)
CtxAuth(c) ==
    /\ ctx[c].pc = "auth"
    /\ IF AuthenticateClient(ctx[c].data)
       THEN /\ client_connections' = client_connections \cup {c}
            /\ toLeaf' = [toLeaf EXCEPT ![c] = Append(@, AuthResponse(TRUE))]
            /\ ctx' = [ctx EXCEPT ![c] = [pc |-> "loop", data |-> NoFrame]]
            /\ UNCHANGED <<socks, it, events>>
       ELSE /\ Finally(c)
            /\ UNCHANGED toLeaf
    /\ UNCHANGED <<toHub, produced, shown, qq, listening, should_stop, server_loop>>
    /\ HubThreadsOnly

\* the peer of socket c closes it, or writes bytes that do not decode
PeerEnds(c) ==
    /\ socks[c] = "open"
    /\ ctx[c].pc \in {"loop", "recv", "handlers", "forward"}
    /\ \A i \in DOMAIN toHub[c] : toHub[c][i] # ClosedFrame
    /\ toHub' = [toHub EXCEPT ![c] = Append(@, ClosedFrame)]
    /\ UNCHANGED <<client_connections, toLeaf, produced, shown, qq, listening, ctx, socks,
                   should_stop, server_loop, it, events>>
    /\ HubThreadsOnly

\* the start of a loop over client_connections.items()
StartIter(op, data) ==
    [pc |-> "iter", op |-> op, data |-> data, size |-> Cardinality(client_connections),
     visited |-> {}, stable |-> client_connections]

\* stop and _stop_server up to the loop over the clients: the flags are set,
\* the listening socket is closed
Stop ==
    /\ ~should_stop
    /\ it.pc # "iter"
    /\ should_stop' = TRUE
    /\ listening' = FALSE
    /\ it' = StartIter("stop", NoFrame)
    /\ UNCHANGED <<client_connections, toHub, toLeaf, produced, shown, qq, ctx, socks,
                   server_loop, events>>
    /\ HubThreadsOnly

\* the registry has another size than when the loop started: the next step of
\* the iteration raises RuntimeError
ChangedSize ==
    Cardinality(client_connections) # it.size

\* _stop_server, one round of `for ... in self.client_connections.items()`:
\* RuntimeError (caught in stop, which skips the clear), or the next client's
\* socket is closed, or the loop is over and the registry is cleared
StopNext ==
    /\ it.pc = "iter"
    /\ it.op = "stop"
    /\ IF ChangedSize
       THEN /\ it' = [it EXCEPT !.pc = "raised"]
            /\ UNCHANGED <<socks, client_connections>>
       ELSE IF client_connections \subseteq it.visited
            THEN /\ it' = [it EXCEPT !.pc = "done"]
                 /\ client_connections' = {}
                 /\ UNCHANGED socks
            ELSE \E c \in client_connections \ it.visited :
                    /\ socks' = [socks EXCEPT ![c] = "closed"]
                    /\ it' = [it EXCEPT !.visited = @ \cup {c}]
                    /\ UNCHANGED client_connections
    /\ UNCHANGED <<toHub, toLeaf, produced, shown, qq, listening, ctx, should_stop,
                   server_loop, events>>
    /\ HubThreadsOnly

\* on_info on the hub: a player's chat line goes to send_chat_sync_message,
\* which enters _broadcast_to_clients
BroadcastStart ==
    /\ ~should_stop
    /\ it.pc # "iter"
    /\ Len(produced) < MaxFrames
    /\ it' = StartIter("broadcast",
                       ChatSyncFrame(LocalEffect(MAIN_SERVER, FALSE, Len(produced) + 1).obj))
    /\ produced' = Append(produced, MAIN_SERVER)
    /\ UNCHANGED <<client_connections, toHub, toLeaf, shown, qq, listening, ctx, socks,
                   should_stop, server_loop, events>>
    /\ HubThreadsOnly

\* _broadcast_to_clients, one round of its for loop: RuntimeError (which
\* send_chat_sync_message catches, returning False), or the frame is written
\* to the next client, or the loop is over
BroadcastNext ==
    /\ it.pc = "iter"
    /\ it.op = "broadcast"
    /\ IF ChangedSize
       THEN /\ it' = [it EXCEPT !.pc = "raised"]
            /\ UNCHANGED toLeaf
       ELSE IF client_connections \subseteq it.visited
            THEN /\ it' = [it EXCEPT !.pc = "done"]
                 /\ UNCHANGED toLeaf
            ELSE \E c \in client_connections \ it.visited :
                    /\ toLeaf' = [toLeaf EXCEPT ![c] = Append(@, it.data)]
                    /\ it' = [it EXCEPT !.visited = @ \cup {c}]
    /\ UNCHANGED <<client_connections, toHub, produced, shown, qq, listening, ctx, socks,
                   should_stop, server_loop, events>>
    /\ HubThreadsOnly

\* a hub that has just started: listening, no client yet
InitStop ==
    /\ config = [n \in Nodes |->
                    [main_server |-> (n = MAIN_SERVER), main_server_password |-> "secret",
                     sync_mc_to_mc |-> TRUE, sync_mc_to_qq |-> TRUE]]
    /\ client_connections = {}
    /\ is_connected = [l \in Leaves |-> FALSE]
    /\ link = [l \in Leaves |-> "closed"]
    /\ toHub = [l \in Leaves |-> <<>>]
    /\ toLeaf = [l \in Leaves |-> <<>>]
    /\ first = [l \in Leaves |-> NoFrame]
    /\ produced = <<>>
    /\ shown = [n \in Nodes |-> [m \in MsgIds |-> 0]]
    /\ qq = [n \in Nodes |-> [m \in MsgIds |-> 0]]
    /\ last = NoStep
    /\ loop = [l \in Leaves |-> LoopStart]
    /\ listening = TRUE
    /\ NoQueries
    /\ NoBytes
    /\ NoThreads

NextStop ==
    \/ \E c \in Leaves, p \in Passwords : AcceptClient(c, AuthFrame(p))
    \/ ServerLoopExits
    \/ \E c \in Leaves : CtxAuth(c)
    \/ \E c \in Leaves : CtxLoop(c)
    \/ \E c \in Leaves : CtxRecv(c)
    \/ \E c \in Leaves : PeerEnds(c)
    \/ Stop
    \/ StopNext
    \/ BroadcastStart
    \/ BroadcastNext

\* the threads of the hub keep running: the accept loop, the thread of each
\* socket, and the context that called stop or broadcasts.  Nothing is assumed
\* of the peers beyond the first frame of a connection they opened.
StopSpec ==
    /\ InitStop
    /\ [][NextStop]_vars
    /\ WF_vars(ServerLoopExits)
    /\ WF_vars(StopNext)
    /\ WF_vars(BroadcastNext)
    /\ \A c \in Leaves : WF_vars(CtxAuth(c)) /\ WF_vars(CtxLoop(c)) /\ WF_vars(CtxRecv(c))

\* ------------------------ a frame that does not decode (network.py 189-276)
\* the variables the thread of a leaf's _client_loop leaves alone here
LeafThreadOnly ==
    UNCHANGED <<config, client_connections, link, toHub, first, produced, shown, qq, last,
                loop, listening, message_handlers, agg, clk,
                sock, send, recv, written, returned,
                ctx, socks, should_stop, server_loop, it, events, life>>

\* the socket object a leaf created for its first connection; later ones
\* count up from it
FirstSocket == 1

\* bytes that do not decode arrive on the socket of a connected leaf
LeafGetsMalformed(l) ==
    /\ is_connected[l]
    /\ client_socket[l].cur < FirstSocket + MaxMsgs
    /\ \A i \in DOMAIN toLeaf[l] : toLeaf[l][i] # ClosedFrame
    /\ toLeaf' = [toLeaf EXCEPT ![l] = Append(@, ClosedFrame)]
    /\ UNCHANGED <<is_connected, client_socket>>
    /\ LeafThreadOnly

\* _client_loop: _receive_message returns None, is_connected is cleared and
\* the loop continues; client_socket is neither closed nor reset, and nothing
\* more is read from it
ClientLoopNone(l) ==
    /\ is_connected[l]
    /\ toLeaf[l] # <<>>
    /\ Head(toLeaf[l]) = ClosedFrame
    /\ is_connected' = [is_connected EXCEPT ![l] = FALSE]
    /\ toLeaf' = [toLeaf EXCEPT ![l] = <<>>]
    /\ UNCHANGED client_socket
    /\ LeafThreadOnly

\* _client_loop calls _connect_to_server, which assigns a new socket object to
\* client_socket, connects and authenticates.  The object it replaces was
\* never closed: its descriptor is closed only when the runtime finalises the
\* object, at once if nothing else refers to it (finalised), later or never
\* otherwise (another thread inside _send_message still holds it).
ConnectAgain(l, finalised) ==
    /\ ~is_connected[l]
    /\ client_socket[l].cur # None
    /\ listening
    /\ LET old == client_socket[l].cur
           new == old + 1
       IN  client_socket' = [client_socket EXCEPT
               ![l] = [open |-> (IF finalised THEN @.open \ {old} ELSE @.open) \cup {new},
                       cur |-> new]]
    /\ is_connected' = [is_connected EXCEPT ![l] = TRUE]
    /\ UNCHANGED toLeaf
    /\ LeafThreadOnly

\* every leaf connected on its first socket, the hub's threads in their read
\* loops
InitTeardown ==
    /\ config = [n \in Nodes |->
                    [main_server |-> (n = MAIN_SERVER), main_server_password |-> "secret",
                     sync_mc_to_mc |-> TRUE, sync_mc_to_qq |-> TRUE]]
    /\ client_connections = Leaves
    /\ is_connected = [l \in Leaves |-> TRUE]
    /\ link = [l \in Leaves |-> "registered"]
    /\ toHub = [l \in Leaves |-> <<>>]
    /\ toLeaf = [l \in Leaves |-> <<>>]
    /\ first = [l \in Leaves |-> AuthFrame("secret")]
    /\ produced = <<>>
    /\ shown = [n \in Nodes |-> [m \in MsgIds |-> 0]]
    /\ qq = [n \in Nodes |-> [m \in MsgIds |-> 0]]
    /\ last = NoStep
    /\ loop = [l \in Leaves |-> LoopStart]
    /\ listening = TRUE
    /\ NoQueries
    /\ NoBytes
    /\ ctx = [c \in Leaves |-> [pc |-> "loop", data |-> NoFrame]]
    /\ socks = [c \in Leaves |-> "open"]
    /\ should_stop = FALSE
    /\ server_loop = "accept"
    /\ it = NoIter
    /\ events = <<>>
    /\ client_socket = [l \in Leaves |-> [open |-> {FirstSocket}, cur |-> FirstSocket]]
    /\ NoLife

NextTeardown ==
    \/ \E l \in Leaves : LeafSends(l, FALSE)
    \/ \E c \in Leaves : PeerEnds(c)
    \/ \E c \in Leaves : CtxLoop(c)
    \/ \E c \in Leaves : CtxRecv(c)
    \/ \E c \in Leaves : CtxHandlers(c, {})
    \/ \E c \in Leaves : CtxForward(c)
    \/ \E l \in Leaves : LeafGetsMalformed(l)
    \/ \E l \in Leaves : ClientLoopNone(l)
    \/ \E l \in Leaves, finalised \in BOOLEAN : ConnectAgain(l, finalised)

TeardownSpec == InitTeardown /\ [][NextTeardown]_vars

\* ------------- the handler loop under registration (network.py 398-410, utils.py 79-97)
\* get_all_player_lists runs as a coroutine of the QQ gateway's event loop
\* and appends to / removes from message_handlers, while the _handle_client
\* threads iterate the same list.  A list iterator keeps an index: each round
\* it reads the element at that index of the list as it is then, and stops
\* when the index has reached the list's length.

\* the variables one round of a handler loop leaves alone
DispatchOnly ==
    UNCHANGED <<config, client_connections, is_connected, link, first, produced, last,
                loop, listening, message_handlers, clk,
                sock, send, recv, written, returned,
                socks, should_stop, server_loop, it, events, client_socket,
                is_running, client_should_stop>>

\* `for handler in self.message_handlers`: the iterator is created
CtxHandlersStart(c) ==
    /\ ctx[c].pc = "handlers"
    /\ disp[c].pc # "iter"
    /\ disp' = [disp EXCEPT ![c] = [pc |-> "iter", i |-> 0, invoked |-> <<>>,
                                    start |-> message_handlers]]
    /\ UNCHANGED <<ctx, agg, toHub, toLeaf, shown, qq>>
    /\ DispatchOnly

\* next() of the list iterator at index d.i, the list now being handlers
IterNext(d, handlers) ==
    IF d.i < Len(handlers)
    THEN [more |-> TRUE, handler |-> handlers[d.i + 1]]
    ELSE [more |-> FALSE, handler |-> None]

\* one round of the handler loop: the next handler is called on the envelope
\* (handle_network_message, or the temporary handler of a roster call), or
\* the loop is over
CtxHandlerNext(c) ==
    /\ ctx[c].pc = "handlers"
    /\ disp[c].pc = "iter"
    /\ LET n == IterNext(disp[c], message_handlers)
           data == ctx[c].data
           h == n.handler
           m == MsgOf(data)
       IN  IF ~n.more
           THEN /\ disp' = [disp EXCEPT ![c].pc = "done"]
                /\ ctx' = [ctx EXCEPT ![c].pc = "forward"]
                /\ UNCHANGED <<agg, toHub, toLeaf, shown, qq>>
           ELSE /\ disp' = [disp EXCEPT ![c].i = @ + 1, ![c].invoked = Append(@, h)]
                /\ UNCHANGED ctx
                /\ IF h = HANDLE_NETWORK_MESSAGE
                   THEN LET e == HandleNetworkMessage(MAIN_SERVER, data, c)
                        IN  /\ WriteAll(MAIN_SERVER, e.sentTo, toHub, toLeaf)
                            /\ IF m \in MsgIds THEN Record(MAIN_SERVER, m, e)
                               ELSE UNCHANGED <<shown, qq>>
                            /\ UNCHANGED agg
                   ELSE /\ agg' = [agg EXCEPT ![h] = HandlePlayerListResponse(@, data, c)]
                        /\ UNCHANGED <<toHub, toLeaf, shown, qq>>
    /\ DispatchOnly

\* the roster call q finds its wait over: it removes its handler and returns
QueryPollEnds(q) ==
    /\ ~StillWaiting(agg[q])
    /\ QueryPoll(q)

\* a hub with one leaf registered, its thread at the top of its read loop, on
\* which /list is issued
InitDispatch ==
    /\ config = [n \in Nodes |->
                    [main_server |-> (n = MAIN_SERVER), main_server_password |-> "secret",
                     sync_mc_to_mc |-> TRUE, sync_mc_to_qq |-> TRUE]]
    /\ client_connections = {1}
    /\ is_connected = [l \in Leaves |-> l \in client_connections]
    /\ link = [l \in Leaves |-> IF l \in client_connections THEN "registered" ELSE "closed"]
    /\ toHub = [l \in Leaves |-> <<>>]
    /\ toLeaf = [l \in Leaves |-> <<>>]
    /\ first = [l \in Leaves |-> IF l \in client_connections THEN AuthFrame("secret") ELSE NoFrame]
    /\ produced = <<>>
    /\ shown = [n \in Nodes |-> [m \in MsgIds |-> 0]]
    /\ qq = [n \in Nodes |-> [m \in MsgIds |-> 0]]
    /\ last = NoStep
    /\ loop = [l \in Leaves |-> LoopStart]
    /\ listening = TRUE
    /\ NoQueries
    /\ NoBytes
    /\ ctx = [c \in Leaves |-> IF c \in client_connections
                               THEN [pc |-> "loop", data |-> NoFrame] ELSE NoCtx]
    /\ socks = [c \in Leaves |-> IF c \in client_connections THEN "open" ELSE "none"]
    /\ should_stop = FALSE
    /\ server_loop = "accept"
    /\ it = NoIter
    /\ events = <<>>
    /\ client_socket = [l \in Leaves |-> [open |-> {}, cur |-> None]]
    /\ NoLife

NextDispatch ==
    \/ \E q \in Queries : QueryStart(q)
    \/ \E q \in Queries : QueryStartDuring(q)
    \/ \E q \in Queries : QueryBroadcast(q)
    \/ \E q \in Queries : QueryCount(q)
    \/ \E q \in Queries : QueryPollEnds(q)
    \/ ClockAdvances
    \/ \E l \in Leaves : LeafRecv(l)
    \/ \E c \in Leaves : CtxLoop(c)
    \/ \E c \in Leaves : CtxRecv(c)
    \/ \E c \in Leaves : CtxHandlersStart(c)
    \/ \E c \in Leaves : CtxHandlerNext(c)
    \/ \E c \in Leaves : CtxForward(c)

DispatchSpec == InitDispatch /\ [][NextDispatch]_vars

\* ---------------------------- an error on accept (network.py 155-173)
\* _server_loop: accept, or the start of the client's thread, raises while the
\* hub is not stopping (the process is out of file descriptors, the
\* connection was aborted in the backlog, no thread can be started): the
\* error is logged and `break` leaves the loop.  The listening socket stays
\* open.
AcceptFails ==
    /\ server_loop = "accept"
    /\ listening
    /\ ~should_stop
    /\ server_loop' = "exited"
    /\ UNCHANGED <<client_connections, toHub, toLeaf, produced, shown, qq, listening,
                   ctx, socks, should_stop, it, events>>
    /\ HubThreadsOnly

NextAccept ==
    \/ \E c \in Leaves, p \in Passwords : AcceptClient(c, AuthFrame(p))
    \/ AcceptFails
    \/ \E c \in Leaves : CtxAuth(c)
    \/ \E c \in Leaves : CtxLoop(c)
    \/ \E c \in Leaves : CtxRecv(c)
    \/ \E c \in Leaves : PeerEnds(c)
    \/ BroadcastStart
    \/ BroadcastNext

\* a hub that nobody stops, and whose accept may fail
AcceptSpec ==
    /\ InitStop
    /\ [][NextAccept]_vars
    /\ WF_vars(BroadcastNext)
    /\ \A c \in Leaves : WF_vars(CtxAuth(c)) /\ WF_vars(CtxLoop(c)) /\ WF_vars(CtxRecv(c))

\* ---------------------- a send that fails in a broadcast (network.py 330-344, 430-442)
\* the peer of socket c has closed it, or the hub has: a sendall on it may
\* raise (it may also still succeed, the bytes being discarded later)
SendMayFail(c) ==
    \/ socks[c] = "closed"
    \/ \E i \in DOMAIN toHub[c] : toHub[c][i] = ClosedFrame

\* _broadcast_to_clients, one round of its for loop in which _send_message
\* raises: the error is logged there and again in the loop's except clause,
\* and the loop goes on
BroadcastSendFails ==
    /\ it.pc = "iter"
    /\ it.op = "broadcast"
    /\ ~ChangedSize
    /\ \E c \in client_connections \ it.visited :
          /\ SendMayFail(c)
          /\ it' = [it EXCEPT !.visited = @ \cup {c}]
          /\ events' = Append(events, Event("send_failed", c, it.data, <<>>, {}))
    /\ UNCHANGED <<client_connections, toHub, toLeaf, produced, shown, qq, listening, ctx,
                   socks, should_stop, server_loop>>
    /\ HubThreadsOnly

NextSendFail ==
    \/ \E c \in Leaves, p \in Passwords : AcceptClient(c, AuthFrame(p))
    \/ \E c \in Leaves : CtxAuth(c)
    \/ \E c \in Leaves : CtxLoop(c)
    \/ \E c \in Leaves : CtxRecv(c)
    \/ \E c \in Leaves : PeerEnds(c)
    \/ BroadcastStart
    \/ BroadcastNext
    \/ BroadcastSendFails

\* a running hub that broadcasts while its leaves come and go
SendFailSpec ==
    /\ InitStop
    /\ [][NextSendFail]_vars
    /\ WF_vars(BroadcastNext)
    /\ \A c \in Leaves : WF_vars(CtxAuth(c)) /\ WF_vars(CtxLoop(c)) /\ WF_vars(CtxRecv(c))

\* ------------------ start and stop of a manager (network.py 51-173, 217-276)
\* The plugin calls start() and stop() from its own context while the accept
\* loop of the hub and the client loop of each leaf run on threads of their
\* own.  No chat traffic; the hub is seen from a leaf as the socket it
\* listens on and the answer _authenticate_client gives.
\*   server_loop   also "top": the thread is at the while test
\*   loop[l].pc    also "connect" (about to create the socket and connect),
\*                 "auth" (in _authenticate_to_server), "mark" (authenticated,
\*                 is_connected not yet set), "check" (at the test of
\*                 is_connected and client_socket) and "exited"

\* the variables start, stop and the two loops leave alone
LifeOnly ==
    UNCHANGED <<config, toHub, toLeaf, first, produced, shown, qq, last,
                message_handlers, agg, clk, sock, send, recv, written, returned,
                ctx, socks, it, events, disp>>

\* start() on the hub, when the thread of an earlier run has ended:
\* _start_server binds a new listening socket, starts _server_loop and sets
\* is_running.  should_stop is left as it is.
StartHub ==
    /\ ~is_running[MAIN_SERVER]
    /\ server_loop = "exited"
    /\ listening' = TRUE
    /\ server_loop' = "top"
    /\ is_running' = [is_running EXCEPT ![MAIN_SERVER] = TRUE]
    /\ UNCHANGED <<client_connections, is_connected, link, loop, should_stop,
                   client_socket, client_should_stop>>
    /\ LifeOnly

\* stop() on the hub: the flags, then _stop_server closes the listening
\* socket and the clients' sockets and clears the registry
StopHub ==
    /\ is_running[MAIN_SERVER]
    /\ should_stop' = TRUE
    /\ is_running' = [is_running EXCEPT ![MAIN_SERVER] = FALSE]
    /\ listening' = FALSE
    /\ client_connections' = {}
    /\ link' = [l \in Leaves |-> "closed"]
    /\ UNCHANGED <<is_connected, loop, server_loop, client_socket, client_should_stop>>
    /\ LifeOnly

\* _server_loop at `while not self.should_stop and self.socket_server`
ServerLoopTest ==
    /\ server_loop = "top"
    /\ server_loop' = IF ~should_stop /\ listening THEN "accept" ELSE "exited"
    /\ UNCHANGED <<client_connections, is_connected, link, loop, listening, should_stop,
                   client_socket, is_running, client_should_stop>>
    /\ LifeOnly

\* start() on a leaf, when the thread of an earlier run has ended:
\* _start_client starts _client_loop and sets is_running
StartClient(l) ==
    /\ ~is_running[l]
    /\ loop[l].pc = "exited"
    /\ loop' = [loop EXCEPT ![l] = LoopStart]
    /\ is_running' = [is_running EXCEPT ![l] = TRUE]
    /\ UNCHANGED <<client_connections, is_connected, link, listening, should_stop,
                   server_loop, client_socket, client_should_stop>>
    /\ LifeOnly

\* stop() on a leaf: the flags, then _stop_client clears is_connected, closes
\* client_socket and resets it; the hub's thread for that socket sees the
\* close and deregisters the leaf
StopClient(l) ==
    /\ is_running[l]
    /\ client_should_stop' = [client_should_stop EXCEPT ![l] = TRUE]
    /\ is_running' = [is_running EXCEPT ![l] = FALSE]
    /\ is_connected' = [is_connected EXCEPT ![l] = FALSE]
    /\ client_socket' = [client_socket EXCEPT ![l] = [open |-> @.open \ {@.cur}, cur |-> None]]
    /\ IF client_socket[l].cur # None
       THEN /\ link' = [link EXCEPT ![l] = "closed"]
            /\ client_connections' = client_connections \ {l}
       ELSE UNCHANGED <<link, client_connections>>
    /\ UNCHANGED <<loop, listening, should_stop, server_loop>>
    /\ LifeOnly

\* _client_loop at `while not self.should_stop`, and `if not self.is_connected`
ClientLoopTest(l) ==
    /\ loop[l].pc = "top"
    /\ loop' = [loop EXCEPT ![l].pc = IF client_should_stop[l] THEN "exited"
                                      ELSE IF ~is_connected[l] THEN "connect"
                                      ELSE "check"]
    /\ UNCHANGED <<client_connections, is_connected, link, listening, should_stop,
                   server_loop, client_socket, is_running, client_should_stop>>
    /\ LifeOnly

\* the socket object a leaf creates next: the first number no open one has
NewSocket(open) ==
    CHOOSE x \in FirstSocket..(FirstSocket + Cardinality(open)) :
        x \notin open /\ \A y \in FirstSocket..(x - 1) : y \in open

\* _connect_to_server up to connect(): a new socket object replaces
\* client_socket (the old one, if any, closed by the runtime or not, as in
\* ConnectAgain); connect succeeds on a listening hub, else the except clause
\* closes and resets client_socket and the call returns False
ConnectSocket(l, finalised) ==
    /\ loop[l].pc = "connect"
    /\ LET old == client_socket[l].cur
           kept == IF finalised THEN client_socket[l].open \ {old} ELSE client_socket[l].open
           new == NewSocket(kept)
       IN  /\ new <= FirstSocket + MaxMsgs
           /\ IF listening
              THEN /\ client_socket' = [client_socket EXCEPT
                          ![l] = [open |-> kept \cup {new}, cur |-> new]]
                   /\ loop' = [loop EXCEPT ![l].pc = "auth"]
              ELSE /\ client_socket' = [client_socket EXCEPT
                          ![l] = [open |-> kept, cur |-> None]]
                   /\ loop' = [loop EXCEPT ![l].pc = "check"]
    /\ UNCHANGED <<client_connections, is_connected, link, listening, should_stop,
                   server_loop, is_running, client_should_stop>>
    /\ LifeOnly

\* _connect_to_server in _authenticate_to_server: the hub's thread accepts
\* the socket and answers, or stop() has reset client_socket meanwhile.  On
\* success the hub has registered the leaf; else the socket is closed and
\* reset and the call returns False.
AuthenticateToServer(l) ==
    /\ loop[l].pc = "auth"
    /\ LET cur == client_socket[l].cur
       IN  IF cur = None
           THEN /\ loop' = [loop EXCEPT ![l].pc = "check"]
                /\ UNCHANGED <<client_socket, link, client_connections>>
           ELSE /\ server_loop = "accept" /\ listening
                /\ IF AuthenticateClient(AuthFrame(config[l].main_server_password))
                   THEN /\ loop' = [loop EXCEPT ![l].pc = "mark"]
                        /\ link' = [link EXCEPT ![l] = "registered"]
                        /\ client_connections' = client_connections \cup {l}
                        /\ UNCHANGED client_socket
                   ELSE /\ loop' = [loop EXCEPT ![l].pc = "check"]
                        /\ client_socket' = [client_socket EXCEPT
                               ![l] = [open |-> @.open \ {cur}, cur |-> None]]
                        /\ UNCHANGED <<link, client_connections>>
    /\ UNCHANGED <<is_connected, listening, should_stop, server_loop, is_running,
                   client_should_stop>>
    /\ LifeOnly

\* _connect_to_server after the authentication: is_connected = True
MarkConnected(l) ==
    /\ loop[l].pc = "mark"
    /\ is_connected' = [is_connected EXCEPT ![l] = TRUE]
    /\ loop' = [loop EXCEPT ![l].pc = "check"]
    /\ UNCHANGED <<client_connections, link, listening, should_stop, server_loop,
                   client_socket, is_running, client_should_stop>>
    /\ LifeOnly

\* _client_loop at `if self.is_connected and self.client_socket`: on to
\* _receive_message, or into time.sleep(5)
ClientLoopCheck(l) ==
    /\ loop[l].pc = "check"
    /\ loop' = [loop EXCEPT ![l].pc = IF is_connected[l] /\ client_socket[l].cur # None
                                      THEN "recv" ELSE "sleep"]
    /\ UNCHANGED <<client_connections, is_connected, link, listening, should_stop,
                   server_loop, client_socket, is_running, client_should_stop>>
    /\ LifeOnly

\* _client_loop in _receive_message: None, because stop() closed the socket
\* or the hub's end is closed; is_connected is cleared and the loop continues
ClientLoopRecvNone(l) ==
    /\ loop[l].pc = "recv"
    /\ client_socket[l].cur = None \/ link[l] = "closed"
    /\ is_connected' = [is_connected EXCEPT ![l] = FALSE]
    /\ loop' = [loop EXCEPT ![l].pc = "top"]
    /\ UNCHANGED <<client_connections, link, listening, should_stop, server_loop,
                   client_socket, is_running, client_should_stop>>
    /\ LifeOnly

\* managers that have just been started: the hub accepts, the client loop of
\* each leaf, with its own configured password, is at its first test
InitLife ==
    /\ \E pw \in [Leaves -> Passwords] :
           config = [n \in Nodes |->
                        [main_server |-> (n = MAIN_SERVER),
                         main_server_password |-> IF n = MAIN_SERVER THEN "secret" ELSE pw[n],
                         sync_mc_to_mc |-> TRUE, sync_mc_to_qq |-> TRUE]]
    /\ client_connections = {}
    /\ is_connected = [l \in Leaves |-> FALSE]
    /\ link = [l \in Leaves |-> "closed"]
    /\ toHub = [l \in Leaves |-> <<>>]
    /\ toLeaf = [l \in Leaves |-> <<>>]
    /\ first = [l \in Leaves |-> NoFrame]
    /\ produced = <<>>
    /\ shown = [n \in Nodes |-> [m \in MsgIds |-> 0]]
    /\ qq = [n \in Nodes |-> [m \in MsgIds |-> 0]]
    /\ last = NoStep
    /\ loop = [l \in Leaves |-> LoopStart]
    /\ listening = TRUE
    /\ NoQueries
    /\ NoBytes
    /\ NoThreads

\* the next step of the thread running _client_loop on leaf l
ClientLoopStep(l) ==
    \/ ClientLoopTest(l)
    \/ \E finalised \in BOOLEAN : ConnectSocket(l, finalised)
    \/ AuthenticateToServer(l)
    \/ MarkConnected(l)
    \/ ClientLoopCheck(l)
    \/ ClientLoopRecvNone(l)
    \/ SleepEnds(l)

NextLife ==
    \/ StartHub
    \/ StopHub
    \/ ServerLoopTest
    \/ ServerLoopExits
    \/ AcceptFails
    \/ \E l \in Leaves : StartClient(l)
    \/ \E l \in Leaves : StopClient(l)
    \/ \E l \in Leaves : ClientLoopTest(l)
    \/ \E l \in Leaves, finalised \in BOOLEAN : ConnectSocket(l, finalised)
    \/ \E l \in Leaves : AuthenticateToServer(l)
    \/ \E l \in Leaves : MarkConnected(l)
    \/ \E l \in Leaves : ClientLoopCheck(l)
    \/ \E l \in Leaves : ClientLoopRecvNone(l)
    \/ \E l \in Leaves : SleepEnds(l)
    \/ \E l \in Leaves : SocketCloses(l)

\* the threads keep running; start and stop are called when the plugin
\* pleases
LifeSpec ==
    /\ InitLife
    /\ [][NextLife]_vars
    /\ WF_vars(ServerLoopTest)
    /\ WF_vars(ServerLoopExits)
    /\ \A l \in Leaves : WF_vars(ClientLoopStep(l))

\* =================================================================== claims
\* the last step was node n handling a chat_sync_obj frame it read
Handled(n) == last.op = "recv" /\ last.node = n /\ last.frame.type = "chat_sync_obj"

\* the last step was the hub handling a LeafChat (0) or LeafEvent (1)
HubHandledLeafMsg == Handled(MAIN_SERVER) /\ last.frame.data.type \in {0, 1}

\* number of copies of frame f the last step wrote to destination d
Copies(d, f) == Cardinality({i \in DOMAIN last.sentTo[d] : last.sentTo[d][i] = f})

Rewrapped(obj) == ChatSyncObj(obj.type + 2, obj.server_name, obj.player, obj.message)

\* C1: with relay-to-cluster enabled on the hub, no leaf ever reads an
\* envelope (of any chat/event kind) that carries a message the leaf itself
\* produced.
C1_NoEchoToOrigin ==
    config[MAIN_SERVER].sync_mc_to_mc =>
        \A l \in Leaves :
            ~(/\ Handled(l)
              /\ last.frame.data.type \in 0..4
              /\ last.frame.data.server_name = l
              /\ produced[last.frame.data.message[1]] = l)

\* C2: every node other than the producer shows one produced message at most
\* once.
C2_ShownAtMostOnce ==
    \A m \in 1..Len(produced) : \A n \in Nodes \ {produced[m]} : shown[n][m] <= 1

GoodAuth(f) ==
    f.type = "auth" /\ f.password = config[MAIN_SERVER].main_server_password

\* C3: a connection id is registered, and its frames are dispatched, only if
\* the first frame on it was an auth record with the hub's secret; after any
\* other first frame the connection is closed and not registered.
C3_AuthGate ==
    /\ \A l \in client_connections : link[l] = "registered" /\ GoodAuth(first[l])
    /\ (last.op = "recv" /\ last.node = MAIN_SERVER) => GoodAuth(first[last.sender])
    /\ (last.op = "auth" /\ ~GoodAuth(last.frame)) =>
           /\ last.sender \notin client_connections
           /\ link[last.sender] = "closed"
           /\ toLeaf[last.sender] = <<>>

C3_Witness ==
    /\ last.op = "auth"
    /\ last.frame = AuthFrame("wrong")
    /\ last.sender \notin client_connections
    /\ client_connections # {}

C5_EventuallyShown ==
    \A m \in MsgIds :
        (Len(produced) >= m) ~>
            (Len(produced) >= m /\ \A n \in Nodes \ {produced[m]} : shown[n][m] >= 1)

C5_Witness ==
    /\ Len(produced) >= 1
    /\ produced[1] \in Leaves
    /\ \A n \in Nodes \ {produced[1]} : shown[n][1] >= 1

\* C6: the hub shows a received LeafChat/LeafEvent locally whatever the
\* relay-to-cluster toggle is.
C6_HubShowsAlways ==
    HubHandledLeafMsg => last.say = 1

\* C7: with relay-to-cluster disabled, the hub handling a LeafChat/LeafEvent
\* writes no envelope to any other leaf.
C7_NoRelayWhenDisabled ==
    (HubHandledLeafMsg /\ ~config[MAIN_SERVER].sync_mc_to_mc) =>
        \A d \in Leaves \ {last.sender} : last.sentTo[d] = <<>>

\* C8: a leaf never calls the gateway forwarder.
C8_LeafNeverForwardsToGateway ==
    /\ \A l \in Leaves : \A m \in MsgIds : qq[l][m] = 0
    /\ last.node \in Leaves => last.qq = 0

\* C9: handling a LeafChat/LeafEvent, the hub calls the gateway forwarder once
\* if relay-to-gateway is enabled and not at all otherwise, whatever
\* relay-to-cluster is; over the whole run the hub forwards a leaf's message
\* to the gateway at most once.
C9_GatewayOnce ==
    /\ HubHandledLeafMsg =>
           last.qq = IF config[MAIN_SERVER].sync_mc_to_qq THEN 1 ELSE 0
    /\ \A m \in 1..Len(produced) :
           produced[m] \in Leaves =>
               /\ qq[MAIN_SERVER][m] <= 1
               /\ ~config[MAIN_SERVER].sync_mc_to_qq => qq[MAIN_SERVER][m] = 0

C9_Witness ==
    /\ HubHandledLeafMsg
    /\ config[MAIN_SERVER].sync_mc_to_qq
    /\ ~config[MAIN_SERVER].sync_mc_to_mc
    /\ qq[MAIN_SERVER][last.frame.data.message[1]] = 1

C11_LeafShowsPeerOnce ==
    \A l \in Leaves :
        (Handled(l) /\ last.sender = MAIN_SERVER /\ last.frame.data.type \in {2, 3, 4}) =>
            /\ last.say = 1
            /\ last.qq = 0
            /\ \A d \in Nodes : last.sentTo[d] = <<>>

C11_Witness ==
    /\ last.op = "recv"
    /\ last.node \in Leaves
    /\ last.frame.type = "chat_sync_obj"
    /\ last.frame.data.type = 4
    /\ shown[last.node][last.frame.data.message[1]] = 1
    /\ toHub[last.node] = <<>>

\* the kinds whose expected receiver role is not the role of node n
RoleMismatch(n, k) ==
    IF IsMainServer(n) THEN k \in {2, 3, 5} ELSE k \in {0, 1, 6}

\* the last step wrote a RosterReply for correlation id r built by node n
RepliedRoster(n, r) ==
    \E d \in Nodes :
        Copies(d, ChatSyncFrame(ChatSyncObj(6, n, None, r \o <<Delim>> \o RosterText(n)))) >= 1

\* C12: a node that reads an envelope whose kind is meant for the other role
\* logs the anomaly, performs the forwarding action the table gives for the
\* kind (LeafChat/LeafEvent: show, rebroadcast as PeerChat/PeerEvent if
\* relay-to-cluster, gateway if relay-to-gateway; PeerChat/PeerEvent: show;
\* RosterQuery: reply with a RosterReply; RosterReply: nothing shown), and
\* the connection it came on stays open.
C12_MismatchRoutedAsValid ==
    \A n \in Nodes :
        (Handled(n) /\ RoleMismatch(n, last.frame.data.type)) =>
            LET obj == last.frame.data
            IN  /\ last.err = 1
                /\ obj.type \in {0, 1} =>
                       /\ last.say = 1
                       /\ last.qq = IF config[n].sync_mc_to_qq THEN 1 ELSE 0
                       /\ (\E d \in Nodes : Copies(d, ChatSyncFrame(Rewrapped(obj))) >= 1)
                              = config[n].sync_mc_to_mc
                /\ obj.type \in {2, 3} => last.say = 1
                /\ obj.type = 5 => RepliedRoster(n, obj.message)
                /\ obj.type = 6 => last.say = 0
                /\ IF n = MAIN_SERVER THEN last.sender \in client_connections
                                      ELSE is_connected[n]

\* this step is leaf l's _client_loop calling _connect_to_server
StartsAttempt(l) ==
    loop[l].pc = "top" /\ ~is_connected[l] /\ loop'[l].pc # "top"

\* C13: a connection attempt a leaf starts after it saw its established
\* connection closed starts at least RECONNECT_DELAY time units after that.
C13_ReconnectNotBeforeDelay ==
    [][\A l \in Leaves :
          (StartsAttempt(l) /\ loop[l].since # None) => loop[l].since >= RECONNECT_DELAY]_vars

\* C14: a leaf whose password is the hub's, if the hub listens from some
\* point on, is connected again and again, whatever attempts failed and
\* whatever connections were lost before.
C14_EventuallyConnected ==
    \A l \in Leaves :
        (config[l].main_server_password = config[MAIN_SERVER].main_server_password
            /\ <>[]listening)
        => []<>is_connected[l]

C14_Witness ==
    \E l \in Leaves :
        /\ is_connected[l]
        /\ loop[l].failed

\* the registry held the same leaves at the zero-leaves check, at the
\* broadcast and when the expected count was read
StableRegistry(a) == a.checked = a.sent /\ a.sent = a.counted

\* the leaf rosters among the parts of a result: all but the first part and
\* the timed-out note
LeafParts(result) ==
    {i \in DOMAIN result : i > 1 /\ result[i][1] # TimeoutNote}

\* parts 2..k+1 of the result are the rosters of k different leaves the query
\* was sent to
LeafRostersOf(a, k) ==
    /\ LeafParts(a.result) = 2..(k + 1)
    /\ \A i \in 2..(k + 1) : \E l \in a.sent : a.result[i] = RosterText(l)
    /\ \A i, j \in 2..(k + 1) : i # j => a.result[i] # a.result[j]

NoQueryRunning == \A q \in Queries : agg[q].pc \in {"idle", "done"}

\* C17: once a call has ended, its temporary handler is not in the handler
\* list, its result is still the one built from what was recorded when the
\* wait ended, and a RosterReply the hub reads afterwards has no observable
\* effect: nothing shown, logged as an anomaly, forwarded to the gateway or
\* written to any peer.
C17_HandlerCleanup ==
    /\ \A q \in Queries :
           agg[q].pc = "done" =>
               /\ \A i \in DOMAIN message_handlers : message_handlers[i] # q
               /\ agg[q].expected # None => agg[q].result = AllLists(agg[q])
    /\ (NoQueryRunning /\ Handled(MAIN_SERVER) /\ last.frame.data.type = 6) =>
           /\ last.say = 0 /\ last.qq = 0 /\ last.err = 0
           /\ \A d \in Nodes : last.sentTo[d] = <<>>

\* C18: two calls that each issued a request carry different request ids.
C18_DistinctRequestIds ==
    \A p, q \in Queries :
        (p # q /\ agg[p].request_id # None /\ agg[q].request_id # None) =>
            agg[p].request_id # agg[q].request_id

\* C19: a call that has started always ends; it does not sleep again once
\* the expected number of replies is recorded, and its wait never lasts
\* longer than TIMEOUT plus one polling interval.
C19_AlwaysReturns ==
    /\ \A q \in Queries : (agg[q].pc # "idle") ~> (agg[q].pc = "done")
    /\ [](\A q \in Queries : agg[q].elapsed <= TIMEOUT + POLL)
    /\ [][\A q \in Queries :
             (agg[q].pc = "poll" /\ Len(agg[q].responses) >= agg[q].expected) =>
                 agg'[q].elapsed = agg[q].elapsed]_vars

C19_Witness ==
    \E q \in Queries :
        /\ agg[q].pc = "done"
        /\ agg[q].elapsed = TIMEOUT
        /\ Len(agg[q].responses) < agg[q].expected

\* C20: a call made while the registry is empty has ended at once with the
\* local roster alone: no request id, no handler registered, no RosterQuery
\* written, no wait.
C20_NoLeavesImmediate ==
    \A q \in Queries :
        (agg[q].pc # "idle" /\ agg[q].checked = {}) =>
            /\ agg[q].pc = "done"
            /\ agg[q].result = <<RosterText(MAIN_SERVER)>>
            /\ agg[q].request_id = None
            /\ agg[q].sent = {} /\ agg[q].elapsed = 0
            /\ \A i \in DOMAIN message_handlers : message_handlers[i] # q
            /\ \A l \in Leaves : \A i \in DOMAIN toLeaf[l] :
                   ~(toLeaf[l][i].type = "chat_sync_obj" /\ toLeaf[l][i].data.type = 5)

C20_Witness ==
    \E q \in Queries :
        /\ agg[q].pc = "done"
        /\ agg[q].checked = {}
        /\ client_connections = {}
        /\ agg[q].result = <<RosterText(MAIN_SERVER)>>


\* ------------------------------------------------------------------- C21
\* the values the calls of _receive_message returned, in order
Decoded == [i \in DOMAIN returned |-> returned[i].value]

\* C21: whatever records one context writes with _send_message, the calls of
\* _receive_message at the other end return those records, in the same order
\* and each decoded from exactly its own bytes, however the socket cuts the
\* bytes into chunks; once every byte is read, every record has been returned.
C21_FrameRoundTrip ==
    /\ Len(returned) <= Len(written)
    /\ \A i \in DOMAIN returned : returned[i] = Returned(written[i], "ok")
    /\ (/\ sock.bytes = <<>>
        /\ send[1].pc = "idle"
        /\ recv.pc = "length"
        /\ recv.data = <<>>) => Decoded = written

\* two different records came through, and some recv returned less than asked
C21_Witness ==
    /\ Len(returned) = 2
    /\ returned[1].value # returned[2].value
    /\ recv.short
    /\ Decoded = written

\* ------------------------------------------------------------------- C27
\* C27: when two contexts of the hub write frames to the same leaf socket at
\* the same time, the leaf decodes exactly the frames that were sent: every
\* return of _receive_message is one of the written records, none is None, and
\* no record is returned more often than it was written.
C27_NoInterleaving ==
    /\ \A i \in DOMAIN returned :
           /\ returned[i].how = "ok"
           /\ \E j \in DOMAIN written : written[j] = returned[i].value
    /\ \A x \in Payloads :
           Cardinality({i \in DOMAIN returned : returned[i].value = x})
               <= Cardinality({j \in DOMAIN written : written[j] = x})

\* ------------------------------------------------------------------- C30
\* C30: _receive_message never raises and never returns part of a record: a
\* call that ends because the peer closed before the 4 length bytes or before
\* the declared payload length had arrived, or because the payload is no JSON
\* text (or empty), returns None; any other return is a whole record.
C30_ClosedNotError ==
    \A i \in DOMAIN returned :
        /\ returned[i].value # RaisedFrame
        /\ returned[i].how # "ok" => returned[i].value = ClosedFrame
        /\ returned[i].how = "ok" => returned[i].value \in Payloads

\* the peer closed after the length of a record had arrived and before its
\* payload, and the call returned None
C30_Witness ==
    /\ returned # <<>>
    /\ returned[Len(returned)] = Returned(ClosedFrame, "eof_payload")
    /\ recv.pc = "stopped"
    /\ sock.eof
    /\ \E w \in Writers : send[w].pc = "payload"


\* ------------------------------------------------------------------- C26
\* C26: every envelope the hub writes to a leaf's socket is a PeerChat (2),
\* PeerEvent (3), GatewayChat (4) or RosterQuery (5); never a LeafChat (0),
\* LeafEvent (1) or RosterReply (6).
C26_HubSendsHubKinds ==
    \A l \in Leaves : \A i \in DOMAIN toLeaf[l] :
        toLeaf[l][i].type = "chat_sync_obj" => toLeaf[l][i].data.type \in {2, 3, 4, 5}


\* ------------------------------------------------------------------- C23
\* the peer a node read its last frame from, as a destination of its writes
PeerOfLast == IF last.node = MAIN_SERVER THEN last.sender ELSE MAIN_SERVER

\* the last step was a node reading frame f from a connected peer
ReadFrame(f) == last.op = "recv" /\ last.frame = f

\* C23: a node that reads a ping from a connected peer writes exactly one pong
\* to that peer and nothing to anyone else; a ping or a pong read is not given
\* to the message handlers (nothing is shown, forwarded to the group, logged
\* as an error or recorded by a roster call) and not rebroadcast.
C23_PingPong ==
    [][/\ ReadFrame(PingFrame)' =>
            /\ last'.sentTo[PeerOfLast'] = <<PongFrame>>
            /\ \A d \in Nodes \ {PeerOfLast'} : last'.sentTo[d] = <<>>
       /\ ReadFrame(PongFrame)' => last'.sentTo = NoSends
       /\ (ReadFrame(PingFrame)' \/ ReadFrame(PongFrame)') =>
            /\ last'.say = 0 /\ last'.qq = 0 /\ last'.err = 0
            /\ shown' = shown /\ qq' = qq /\ agg' = agg]_vars

\* the hub read a ping from leaf 1 while leaf 2 was registered, and the pong
\* is on its way to leaf 1
C23_Witness ==
    /\ ReadFrame(PingFrame)
    /\ last.node = MAIN_SERVER
    /\ last.sender = 1
    /\ 2 \in client_connections
    /\ \E i \in DOMAIN toLeaf[1] : toLeaf[1][i] = PongFrame


\* ------------------------------------------------------------------- C22
\* C22: when a registered handler raises on an envelope, every registered
\* handler is still called for that envelope, the frame is still forwarded,
\* the thread goes back to _receive_message for the next frame, and the
\* connection stays registered.
C22_HandlerIsolation ==
    /\ [](\A i \in DOMAIN events :
              events[i].kind = "handlers" => events[i].invoked = message_handlers)
    /\ [](\A c \in Leaves : c \in client_connections /\ ctx[c].pc # "exited")
    /\ \A c \in Leaves : (ctx[c].pc = "handlers") ~> (ctx[c].pc = "forward")
    /\ \A c \in Leaves : (ctx[c].pc = "forward") ~> (ctx[c].pc = "recv")

\* on one connection the first of the extra handlers raised on a frame, the
\* second was called all the same, and the next frame was handled after it
C22_Witness ==
    \E i, j \in DOMAIN events :
        /\ i < j
        /\ events[i].kind = "handlers" /\ events[j].kind = "handlers"
        /\ events[i].conn = events[j].conn
        /\ events[i].raised = {ExtraHandler(1)}
        /\ \E k \in DOMAIN events[i].invoked : events[i].invoked[k] = ExtraHandler(2)
        /\ events[i].conn \in client_connections

\* ------------------------------------------------------------------- C25
\* what the thread of connection c did, in order
EventsOf(c) == SelectSeq(events, LAMBDA ev : ev.conn = c)

\* the frames written to leaf d that carry a message of server l
FramesFrom(d, l) ==
    SelectSeq(toLeaf[d], LAMBDA f : f.type = "chat_sync_obj" /\ f.data.server_name = l)

\* C25: the frames of one connection are handled one at a time in the order
\* they were sent: the thread reads a frame, runs the handlers on it and
\* forwards it before it reads the next, the frames come in sending order,
\* and every other leaf is written what the hub sends for an earlier frame
\* before what it sends for a later one.
C25_ReceiptOrder ==
    /\ \A c \in Leaves :
           LET ev == EventsOf(c)
           IN  \A k \in DOMAIN ev :
                   /\ ev[k].kind = <<"read", "handlers", "forward">>[((k - 1) % 3) + 1]
                   /\ (k % 3) # 1 => ev[k].data = ev[k - 1].data
                   /\ k > 3 => MsgOf(ev[k - 3].data) < MsgOf(ev[k].data)
    /\ \A d, l \in Leaves :
           LET fs == FramesFrom(d, l)
           IN  \A i, j \in DOMAIN fs :
                   i < j => fs[i].data.message[1] <= fs[j].data.message[1]

\* leaf 1 sent two envelopes, the hub handled both, and leaf 2 was written
\* something for each of them
C25_Witness ==
    /\ Len(EventsOf(1)) = 6
    /\ \E i, j \in DOMAIN toLeaf[2] :
           /\ toLeaf[2][i].data.message[1] = 1
           /\ toLeaf[2][j].data.message[1] = 2
           /\ toLeaf[2][i].data.server_name = 1
           /\ toLeaf[2][j].data.server_name = 1


\* ------------------------------------------------------------------- C24
\* the hub has shut down: no thread left, no socket open, nobody registered
AllStopped ==
    /\ server_loop = "exited"
    /\ \A c \in Leaves : ctx[c].pc \in {"none", "exited"}
    /\ \A c \in Leaves : socks[c] # "open"
    /\ client_connections = {}

\* C24: once stop() has been called on the running hub, the accept loop and
\* the thread of every connection end, every accepted socket is closed and the
\* registry is empty, whatever the leaves do meanwhile.
C24_StopCleansUp == should_stop ~> AllStopped

\* ------------------------------------------------------------------- C28
\* C28: when a broadcast of the hub is over, the frame has been written to
\* every client that was registered from its start to its end, whichever
\* clients were added or removed meanwhile.
C28_BroadcastReachesStable ==
    (it.op = "broadcast" /\ it.pc \in {"done", "raised"}) => it.stable \subseteq it.visited


\* ------------------------------------------------------------------- C29
\* C29: after a frame that does not decode, the context that owns the
\* connection closes it and handles no further frame from it: on the hub the
\* thread ends with the client deregistered and the socket closed, and a leaf
\* that is connected again has no socket open but the one it now uses.
C29_MalformedTearsDown ==
    /\ \A c \in Leaves :
           ctx[c].pc = "exited" => c \notin client_connections /\ socks[c] = "closed"
    /\ \A i, j \in DOMAIN events :
           (i < j /\ events[i].kind = "exit") => events[j].conn # events[i].conn
    /\ \A i \in DOMAIN events : events[i].data # ClosedFrame
    /\ \A l \in Leaves :
           is_connected[l] => client_socket[l].open = {client_socket[l].cur}


\* C31: the expected-responder count a call waits for is the number of leaves
\* its RosterQuery was written to, whatever the registry did between the
\* zero-leaves check, the broadcast and the reading of the count.
C31_ExpectedIsSent ==
    \A q \in Queries :
        agg[q].expected # None => agg[q].expected = Cardinality(agg[q].sent)


\* the handlers registered from the beginning of the handler loop d until now
StayedRegistered(d) ==
    {d.start[i] : i \in DOMAIN d.start}
        \cap {message_handlers[i] : i \in DOMAIN message_handlers}

\* C32: when the handler loop of a connection context has ended, every
\* handler that was registered from its beginning to its end was called on
\* the envelope, whatever was registered or removed in between.
C32_NoHandlerSkipped ==
    \A c \in Leaves :
        disp[c].pc = "done" =>
            \A h \in StayedRegistered(disp[c]) :
                \E i \in DOMAIN disp[c].invoked : disp[c].invoked[i] = h


\* C33: while the hub is not stopping, whatever accept errors there were, the
\* thread of every registered leaf is in its read loop and the accept loop is
\* running, so that a connection arriving later is accepted and
\* authenticated.
C33_AcceptErrorSurvived ==
    ~should_stop =>
        /\ \A c \in client_connections : ctx[c].pc \in {"loop", "recv", "handlers", "forward"}
        /\ server_loop = "accept"


\* the clients the send of frame data failed for
SendFailed(data) ==
    {events[i].conn : i \in {j \in DOMAIN events :
                                events[j].kind = "send_failed" /\ events[j].data = data}}

\* C34: when a broadcast in which the send to some leaf failed is over, the
\* envelope was written to every other leaf that was registered throughout
\* the broadcast.
C34_SendFailureIsolated ==
    (it.op = "broadcast" /\ it.pc \in {"done", "raised"} /\ SendFailed(it.data) # {}) =>
        \A c \in it.stable \ SendFailed(it.data) :
            \E i \in DOMAIN toLeaf[c] : toLeaf[c][i] = it.data


\* C35: a client id is put into the registry only by the thread of its
\* socket, on a first frame that authenticates; it is not in the registry
\* before that, and once the thread has left its read loop and ended, the id
\* is out of the registry for good and the socket is closed, also when stop
\* had closed it before.
C35_RegistryLifecycle ==
    /\ [](\A c \in Leaves :
             /\ ctx[c].pc \in {"none", "auth", "exited"} => c \notin client_connections
             /\ ctx[c].pc = "exited" => socks[c] = "closed")
    /\ [][\A c \in Leaves :
             (c \notin client_connections /\ c \in client_connections') =>
                 ctx[c].pc = "auth" /\ AuthenticateClient(ctx[c].data)]_vars
    /\ [][\A c \in Leaves : ctx[c].pc = "exited" => ctx'[c].pc = "exited"]_vars

\* two clients were registered; the thread of one has ended after stop had
\* closed its socket, that of the other without stop closing it
C35_Witness ==
    \E c, d \in Leaves :
        /\ it.op = "stop" /\ c \in it.visited /\ ctx[c].pc = "exited"
        /\ d \notin it.visited /\ ctx[d].pc = "exited"
        /\ toLeaf[c] = <<AuthResponse(TRUE)>> /\ toLeaf[d] = <<AuthResponse(TRUE)>>
        /\ c \notin client_connections /\ d \notin client_connections


\* this step is an attempt of leaf l that fails: the hub does not listen, or
\* rejects the leaf's password
AttemptFails(l) ==
    StartsAttempt(l) /\ ~ConnectToServer(l)

\* C37: a leaf's attempt that fails, by a refused connection or a rejected
\* authentication, leaves the leaf not connected and in a sleep of
\* RECONNECT_DELAY time units, the same after every failure; the leaf stays
\* not connected while it sleeps and starts its next attempt only when the
\* whole delay has passed.
C37_FixedRetryDelay ==
    /\ [][\A l \in Leaves :
             AttemptFails(l) =>
                 /\ ~is_connected'[l]
                 /\ loop'[l].pc = "sleep"
                 /\ loop'[l].timer = RECONNECT_DELAY]_vars
    /\ [][\A l \in Leaves :
             (loop[l].pc = "sleep" /\ loop'[l].pc # "sleep") => loop[l].timer = 0]_vars
    /\ [][\A l \in Leaves :
             loop[l].pc = "sleep" =>
                 loop'[l].timer \in {loop[l].timer, loop[l].timer - 1}]_vars
    /\ [](\A l \in Leaves : loop[l].pc = "sleep" => ~is_connected[l])

\* a leaf whose password the listening hub rejects has slept the whole delay
\* after a failed attempt
C37_Witness ==
    \E l \in Leaves :
        /\ loop[l].pc = "sleep" /\ loop[l].timer = 0 /\ loop[l].failed
        /\ listening
        /\ config[l].main_server_password # config[MAIN_SERVER].main_server_password


\* the RosterReply of leaf l to the RosterQuery whose body is r
RosterReplyOf(l, r) ==
    ChatSyncFrame(ChatSyncObj(6, l, None, r \o <<Delim>> \o RosterText(l)))

\* C38: a connected leaf that has handled a RosterQuery with correlation id
\* r has written one frame, to the hub: the RosterReply whose body is r, the
\* delimiter, its roster text.  A call's reply dict changes only when the hub
\* reads a RosterReply whose body begins with that call's own id and the
\* delimiter, and then by the rest of the body being stored under the id of
\* the connection it was read from.
C38_RosterReply ==
    /\ [](\A l \in Leaves :
             (Handled(l) /\ last.frame.data.type = 5 /\ is_connected[l]) =>
                 /\ last.sentTo[MAIN_SERVER] = <<RosterReplyOf(l, last.frame.data.message)>>
                 /\ \A d \in Nodes \ {MAIN_SERVER} : last.sentTo[d] = <<>>)
    /\ [][\A q \in Queries :
             agg'[q].responses # agg[q].responses =>
                 /\ last'.op = "recv" /\ last'.node = MAIN_SERVER
                 /\ last'.frame.type = "chat_sync_obj" /\ last'.frame.data.type = 6
                 /\ LET body == last'.frame.data.message
                    IN  /\ Len(body) >= 2
                        /\ body[1] = agg[q].request_id /\ body[2] = Delim
                        /\ agg'[q].responses =
                               DictSet(agg[q].responses, last'.sender,
                                       SubSeq(body, 3, Len(body)))]_vars

\* two calls with different ids are waiting; the hub has read a leaf's reply
\* to the first, which that call alone recorded
C38_Witness ==
    /\ agg[1].pc = "poll" /\ agg[2].pc = "poll"
    /\ agg[1].request_id # agg[2].request_id
    /\ Handled(MAIN_SERVER) /\ last.frame.data.type = 6
    /\ last.frame = RosterReplyOf(last.sender, <<agg[1].request_id>>)
    /\ agg[1].responses = <<<<last.sender, RosterText(last.sender)>>>>
    /\ agg[2].responses = <<>>


\* C36: once stop() was called on a running leaf, its client loop ends, it
\* starts no connection attempt any more, and is_connected is false from
\* then on; also when stop() came while the loop was connecting or
\* authenticating.
C36_LeafStops ==
    /\ \A l \in Leaves : client_should_stop[l] ~> (loop[l].pc = "exited")
    /\ [][\A l \in Leaves :
             client_should_stop[l] => ~(loop[l].pc = "connect" /\ loop'[l].pc # "connect")]_vars
    /\ [](\A l \in Leaves : client_should_stop[l] => ~is_connected[l])


\* the accept loop of the hub is running and will go on accepting
AcceptLoopRuns ==
    \/ server_loop = "accept" /\ listening
    \/ server_loop = "top" /\ ~should_stop /\ listening

\* the client loop of leaf l is running and will go on
ClientLoopRuns(l) ==
    /\ loop[l].pc # "exited"
    /\ ~client_should_stop[l]

\* C39: a manager whose is_running is true has its loop running: the accept
\* loop on the hub, the client loop on a leaf.
C39_RunningMeansLoop ==
    /\ is_running[MAIN_SERVER] => AcceptLoopRuns
    /\ \A l \in Leaves : is_running[l] => ClientLoopRuns(l)

=============================================================================
